---- MODULE Spec2Model ----
(***************************************************************************)
(* The relationship-graph traversal and risk-analysis engine of the OT     *)
(* asset inventory: the bounded BFS traversals, the dependency chain       *)
(* finder, the redundancy checker and the SPOF scorer, over the assets and *)
(* relationships tables they query.                                        *)
(***************************************************************************)
EXTENDS Integers, Sequences, FiniteSets, TLC

VARIABLES
    assets,         \* the assets table: asset id -> [criticality]
    relationships,  \* the relationships table: a set of rows
    review_flags,   \* the review_flags table: a set of rows
    call,           \* the operation in progress or last returned
    writer          \* the operation of a second caller on the same connection

vars == <<assets, relationships, review_flags, call, writer>>

----------------------------------------------------------------------------
(* Bounds of the model *)

\* rows of the relationships table in an enumerated store
MaxRels == 3
\* largest max_depth argument passed to a traversal, the default aside
MaxDepthArg == 2

\* the largest count passed to _calculate_spof_risk
MaxCount == 4

----------------------------------------------------------------------------
(* The tables *)

\* asset ids of the enumerated stores, and an id that is in no store
StoreIds == {"A", "B", "C"}
PairIds == {"A", "B"}
WideIds == StoreIds \cup {"D"}
UnknownId == "X"

\* asset ids of the end-to-end scenario store
ScenarioIds == {"Sensor1", "PLC1", "Valve1", "PLC2"}

Range(s) == {s[i] : i \in DOMAIN s}

Rel(s, t, ty) == [source_asset_id |-> s, target_asset_id |-> t, relationship_type |-> ty]

\* every row over the given asset ids and relationship types; the foreign keys
\* of the relationships table make both endpoints existing assets
RowsOver(ids, types) == {Rel(s, t, ty) : s \in ids, t \in ids, ty \in types}

\* the tables with at most n of the given rows
TablesOver(rows, n) == {t \in SUBSET rows : Cardinality(t) <= n}

\* Sensor1 feeds_data_to PLC1, PLC1 controls Valve1, PLC2 depends_on PLC1
ScenarioAssets ==
    [i \in ScenarioIds |-> [criticality |-> IF i \in {"PLC1", "PLC2"} THEN "critical" ELSE "medium"]]
ScenarioRelationships ==
    { Rel("Sensor1", "PLC1", "feeds_data_to"),
      Rel("PLC1", "Valve1", "controls"),
      Rel("PLC2", "PLC1", "depends_on") }

\* cursor.fetchall() of a query with no ORDER BY: the matching rows, in an
\* order the query does not fix
RECURSIVE fetchall(_)
fetchall(rows) ==
    IF rows = {} THEN {<<>>}
    ELSE UNION {{<<r>> \o rest : rest \in fetchall(rows \ {r})} : r \in rows}

----------------------------------------------------------------------------
(* utils/graph.py: the traversals.  A traversal's loop state is a record    *)
(* c with the call's arguments and the locals queue, visited and result;   *)
(* expanded logs the ids whose neighbours were fetched.                    *)

\* "SELECT ... FROM assets WHERE id = ?" ... "if row:"
AssetExists(id) == id \in DOMAIN assets

\* TypeMatches with the IN (...) condition lost
TypeMatches_unfiltered(r, relationship_types) == TRUE

\* "if relationship_types:" adds the IN (...) condition only for a non-empty
\* list; None and [] both leave the query unfiltered
TypeMatches(r, relationship_types) ==
    relationship_types = {} \/ r.relationship_type \in relationship_types

LoopInit(op, asset_id, relationship_types, max_depth) ==
    [ op |-> op, root |-> asset_id, relationship_types |-> relationship_types,
      max_depth |-> max_depth,
      visited |-> {},
      queue |-> << [id |-> asset_id, depth |-> 0, path |-> <<>>] >>,
      assets |-> <<>>,
      depth_map |-> << >>,
      expanded |-> <<>>,
      pc |-> "loop" ]

\* Skip with the depth test off by one
Skip_exclusive(c) == Head(c.queue).id \in c.visited \/ Head(c.queue).depth >= c.max_depth

\* Skip that does not look at the visited set
Skip_revisit(c) == Head(c.queue).depth > c.max_depth

\* Skip with no depth test
Skip_unbounded(c) == Head(c.queue).id \in c.visited

\* "if current_id in visited or depth > max_depth: continue"
Skip(c) == Head(c.queue).id \in c.visited \/ Head(c.queue).depth > c.max_depth

\* AppendAsset without the "current_id != asset_id" test
AppendAsset_root(c, current_id, depth, path) ==
    IF AssetExists(current_id)
    THEN [c EXCEPT !.assets = Append(@, [id |-> current_id,
                                          criticality |-> assets[current_id].criticality,
                                          depth |-> depth,
                                          dependency_path |-> path]),
                   !.depth_map = (current_id :> depth) @@ @]
    ELSE c

\* AppendAsset without the "if row:" test on the fetched asset
AppendAsset_unfetched(c, current_id, depth, path) ==
    IF current_id # c.root \/ ~AssetExists(current_id)
    THEN [c EXCEPT !.assets = Append(@, [id |-> current_id,
                                          criticality |-> IF AssetExists(current_id)
                                                          THEN assets[current_id].criticality
                                                          ELSE "None",
                                          depth |-> depth,
                                          dependency_path |-> path]),
                   !.depth_map = (current_id :> depth) @@ @]
    ELSE c

\* result["assets"].append({...}); result["depth_map"][current_id] = depth
AppendAsset(c, current_id, depth, path) ==
    IF current_id # c.root /\ AssetExists(current_id)
    THEN [c EXCEPT !.assets = Append(@, [id |-> current_id,
                                          criticality |-> assets[current_id].criticality,
                                          depth |-> depth,
                                          dependency_path |-> path]),
                   !.depth_map = (current_id :> depth) @@ @]
    ELSE c

\* the relationships query of traverse_upstream for the head of the queue
traverse_upstream_query(c) ==
    {r \in relationships : /\ r.target_asset_id = Head(c.queue).id
                           /\ TypeMatches(r, c.relationship_types)}

\* traverse_upstream's iteration with the queue used as a stack
traverse_upstream_iter_lifo(c, rows) ==
    LET current_id == Head(c.queue).id
        depth == Head(c.queue).depth
        rest == Tail(c.queue)
    IN  IF Skip(c)
        THEN [c EXCEPT !.queue = rest]
        ELSE LET visited == c.visited \cup {current_id}
                 fresh == SelectSeq(rows, LAMBDA r : r.source_asset_id \notin visited)
                 c1 == AppendAsset(c, current_id, depth, <<>>)
             IN [c1 EXCEPT !.visited = visited,
                           !.expanded = Append(@, current_id),
                           !.queue = [i \in 1..Len(fresh) |->
                                [id |-> fresh[i].source_asset_id, depth |-> depth + 1, path |-> <<>>]]
                                \o rest]

\* one iteration of the while loop of traverse_upstream; rows is what the
\* relationships query returns
traverse_upstream_iter(c, rows) ==
    LET current_id == Head(c.queue).id
        depth == Head(c.queue).depth
        rest == Tail(c.queue)
    IN  IF Skip(c)
        THEN [c EXCEPT !.queue = rest]
        ELSE LET visited == c.visited \cup {current_id}
                 fresh == SelectSeq(rows, LAMBDA r : r.source_asset_id \notin visited)
                 c1 == AppendAsset(c, current_id, depth, <<>>)
             IN [c1 EXCEPT !.visited = visited,
                           !.expanded = Append(@, current_id),
                           !.queue = rest \o [i \in 1..Len(fresh) |->
                                [id |-> fresh[i].source_asset_id, depth |-> depth + 1, path |-> <<>>]]]

\* traverse_downstream's iteration with the queue used as a stack
traverse_downstream_iter_lifo(c, rows) ==
    LET current_id == Head(c.queue).id
        depth == Head(c.queue).depth
        rest == Tail(c.queue)
    IN  IF Skip(c)
        THEN [c EXCEPT !.queue = rest]
        ELSE LET visited == c.visited \cup {current_id}
                 fresh == SelectSeq(rows, LAMBDA r : r.target_asset_id \notin visited)
                 c1 == AppendAsset(c, current_id, depth, <<>>)
             IN [c1 EXCEPT !.visited = visited,
                           !.expanded = Append(@, current_id),
                           !.queue = [i \in 1..Len(fresh) |->
                                [id |-> fresh[i].target_asset_id, depth |-> depth + 1, path |-> <<>>]]
                                \o rest]

\* the relationships query of traverse_downstream for the head of the queue
traverse_downstream_query(c) ==
    {r \in relationships : /\ r.source_asset_id = Head(c.queue).id
                           /\ TypeMatches(r, c.relationship_types)}

\* one iteration of the while loop of traverse_downstream
traverse_downstream_iter(c, rows) ==
    LET current_id == Head(c.queue).id
        depth == Head(c.queue).depth
        rest == Tail(c.queue)
    IN  IF Skip(c)
        THEN [c EXCEPT !.queue = rest]
        ELSE LET visited == c.visited \cup {current_id}
                 fresh == SelectSeq(rows, LAMBDA r : r.target_asset_id \notin visited)
                 c1 == AppendAsset(c, current_id, depth, <<>>)
             IN [c1 EXCEPT !.visited = visited,
                           !.expanded = Append(@, current_id),
                           !.queue = rest \o [i \in 1..Len(fresh) |->
                                [id |-> fresh[i].target_asset_id, depth |-> depth + 1, path |-> <<>>]]]

\* find_dependents' query without the relationship_type condition
find_dependents_query_anytype(c) ==
    {r \in relationships : r.target_asset_id = Head(c.queue).id}

\* the relationships query of find_dependents for the head of the queue
find_dependents_query(c) ==
    {r \in relationships : /\ r.target_asset_id = Head(c.queue).id
                           /\ r.relationship_type = "depends_on"}

\* find_dependents' iteration handing its children the path it was given
find_dependents_iter_stalepath(c, rows) ==
    LET current_id == Head(c.queue).id
        depth == Head(c.queue).depth
        rest == Tail(c.queue)
    IN  IF Skip(c)
        THEN [c EXCEPT !.queue = rest]
        ELSE LET visited == c.visited \cup {current_id}
                 current_path == Append(Head(c.queue).path, current_id)
                 fresh == SelectSeq(rows, LAMBDA r : r.source_asset_id \notin visited)
                 c1 == AppendAsset(c, current_id, depth, current_path)
             IN [c1 EXCEPT !.visited = visited,
                           !.expanded = Append(@, current_id),
                           !.queue = rest \o [i \in 1..Len(fresh) |->
                                [id |-> fresh[i].source_asset_id, depth |-> depth + 1,
                                 path |-> Head(c.queue).path]]]

\* one iteration of the while loop of find_dependents
find_dependents_iter(c, rows) ==
    LET current_id == Head(c.queue).id
        depth == Head(c.queue).depth
        rest == Tail(c.queue)
    IN  IF Skip(c)
        THEN [c EXCEPT !.queue = rest]
        ELSE LET visited == c.visited \cup {current_id}
                 current_path == Append(Head(c.queue).path, current_id)
                 fresh == SelectSeq(rows, LAMBDA r : r.source_asset_id \notin visited)
                 c1 == AppendAsset(c, current_id, depth, current_path)
             IN [c1 EXCEPT !.visited = visited,
                           !.expanded = Append(@, current_id),
                           !.queue = rest \o [i \in 1..Len(fresh) |->
                                [id |-> fresh[i].source_asset_id, depth |-> depth + 1,
                                 path |-> current_path]]]

\* the loop states one iteration can lead to, over the orders the rows can
\* come back in
LoopIter(c) ==
    IF Skip(c) THEN {[c EXCEPT !.queue = Tail(@)]}
    ELSE CASE c.op = "traverse_upstream" ->
                {traverse_upstream_iter(c, rows) : rows \in fetchall(traverse_upstream_query(c))}
           [] c.op = "traverse_downstream" ->
                {traverse_downstream_iter(c, rows) : rows \in fetchall(traverse_downstream_query(c))}
           [] c.op = "find_dependents" ->
                {find_dependents_iter(c, rows) : rows \in fetchall(find_dependents_query(c))}

\* "while queue:" run to its end, then "return result"
RECURSIVE LoopRun(_)
LoopRun(c) ==
    IF c.queue = <<>> THEN {[c EXCEPT !.pc = "done"]}
    ELSE UNION {LoopRun(c2) : c2 \in LoopIter(c)}

\* the results a call can return
traverse_upstream(asset_id, relationship_types, max_depth) ==
    LoopRun(LoopInit("traverse_upstream", asset_id, relationship_types, max_depth))

traverse_downstream(asset_id, relationship_types, max_depth) ==
    LoopRun(LoopInit("traverse_downstream", asset_id, relationship_types, max_depth))

find_dependents(asset_id, max_depth) ==
    LoopRun(LoopInit("find_dependents", asset_id, {}, max_depth))

----------------------------------------------------------------------------
(* The traversal specification: a store, and calls that run to their end.  *)

Idle == [op |-> "none", pc |-> "idle"]

\* relationship types of the enumerated traversal stores
TraverseTypes == {"controls", "depends_on"}

\* type filters a caller passes: none, or one type
TypeFilters == {{}, {"controls"}, {"depends_on"}}

\* "max_depth: int = 5"
DefaultMaxDepth == 5

DepthArgs == (-1 .. MaxDepthArg) \cup {DefaultMaxDepth}

Roots == DOMAIN assets \cup {UnknownId}

InitEnumerated ==
    /\ assets = [i \in StoreIds |-> [criticality |-> "high"]]
    /\ relationships \in TablesOver(RowsOver(StoreIds, TraverseTypes), MaxRels)
    /\ call = Idle
    /\ review_flags = {}
    /\ writer = Idle

\* one more asset, one relationship type
InitWide ==
    /\ assets = [i \in WideIds |-> [criticality |-> "high"]]
    /\ relationships \in TablesOver(RowsOver(WideIds, {"depends_on"}), MaxRels)
    /\ call = Idle
    /\ review_flags = {}
    /\ writer = Idle

InitScenario ==
    /\ assets = ScenarioAssets
    /\ relationships = ScenarioRelationships
    /\ call = Idle
    /\ review_flags = {}
    /\ writer = Idle

\* the store before any data is seeded
InitEmpty ==
    /\ assets = << >>
    /\ relationships = {}
    /\ call = Idle
    /\ review_flags = {}
    /\ writer = Idle

Init == InitEnumerated \/ InitWide \/ InitScenario \/ InitEmpty

TraverseUpstream ==
    /\ call.pc = "idle"
    /\ \E asset_id \in Roots, types \in TypeFilters, max_depth \in DepthArgs :
          call' \in traverse_upstream(asset_id, types, max_depth)
    /\ UNCHANGED <<assets, relationships, review_flags, writer>>

TraverseDownstream ==
    /\ call.pc = "idle"
    /\ \E asset_id \in Roots, types \in TypeFilters, max_depth \in DepthArgs :
          call' \in traverse_downstream(asset_id, types, max_depth)
    /\ UNCHANGED <<assets, relationships, review_flags, writer>>

FindDependents ==
    /\ call.pc = "idle"
    /\ \E asset_id \in Roots, max_depth \in DepthArgs :
          call' \in find_dependents(asset_id, max_depth)
    /\ UNCHANGED <<assets, relationships, review_flags, writer>>

\* the forward traversal: traverse_downstream with no type filter
TraverseForward ==
    /\ call.pc = "idle"
    /\ \E asset_id \in Roots, max_depth \in DepthArgs :
          call' \in traverse_downstream(asset_id, {}, max_depth)
    /\ UNCHANGED <<assets, relationships, review_flags, writer>>

Next == TraverseUpstream \/ TraverseDownstream

Spec == Init /\ [][Next]_vars

\* the dependency chain finder, beside the forward traversal
NextDependents == FindDependents \/ TraverseForward

SpecDependents == Init /\ [][NextDependents]_vars

----------------------------------------------------------------------------
(* The loop specification: the same calls, one iteration of the while loop *)
(* per step.  The event loop resumes a traversal whenever its query has    *)
(* returned, so a call that can take a step eventually takes it.           *)

\* type filters of the stepped calls: none, one type
LoopFilters == {{}, {"depends_on"}}

StartTraverseUpstream ==
    /\ call.pc = "idle"
    /\ \E asset_id \in Roots, types \in LoopFilters, max_depth \in DepthArgs :
          call' = LoopInit("traverse_upstream", asset_id, types, max_depth)
    /\ UNCHANGED <<assets, relationships, review_flags, writer>>

StartTraverseDownstream ==
    /\ call.pc = "idle"
    /\ \E asset_id \in Roots, types \in LoopFilters, max_depth \in DepthArgs :
          call' = LoopInit("traverse_downstream", asset_id, types, max_depth)
    /\ UNCHANGED <<assets, relationships, review_flags, writer>>

StartFindDependents ==
    /\ call.pc = "idle"
    /\ \E asset_id \in Roots, max_depth \in DepthArgs :
          call' = LoopInit("find_dependents", asset_id, {}, max_depth)
    /\ UNCHANGED <<assets, relationships, review_flags, writer>>

\* "while queue:" one iteration
LoopStep ==
    /\ call.pc = "loop"
    /\ call.queue # <<>>
    /\ call' \in LoopIter(call)
    /\ UNCHANGED <<assets, relationships, review_flags, writer>>

\* "while queue:" is false; "return result"
LoopReturn ==
    /\ call.pc = "loop"
    /\ call.queue = <<>>
    /\ call' = [call EXCEPT !.pc = "done"]
    /\ UNCHANGED <<assets, relationships, review_flags, writer>>

\* two assets, both relationship types: self-loops, 2-cycles, parallel rows
InitPair ==
    /\ assets = [i \in PairIds |-> [criticality |-> "high"]]
    /\ relationships \in TablesOver(RowsOver(PairIds, TraverseTypes), MaxRels)
    /\ call = Idle
    /\ review_flags = {}
    /\ writer = Idle

\* three assets, one relationship type: self-loops, 2- and 3-cycles
InitChains ==
    /\ assets = [i \in StoreIds |-> [criticality |-> "high"]]
    /\ relationships \in TablesOver(RowsOver(StoreIds, {"depends_on"}), MaxRels)
    /\ call = Idle
    /\ review_flags = {}
    /\ writer = Idle

InitLoop == InitPair \/ InitChains \/ InitEmpty

NextLoop ==
    \/ StartTraverseUpstream
    \/ StartTraverseDownstream
    \/ StartFindDependents
    \/ LoopStep
    \/ LoopReturn

SpecLoop == InitLoop /\ [][NextLoop]_vars /\ WF_vars(LoopStep) /\ WF_vars(LoopReturn)

----------------------------------------------------------------------------
(* utils/graph.py: check_redundancy *)

\* SQL NULL, Python None
None == "None"

\* the redundant_with query matching asset_id as the source only
redundant_with_query_outgoing(asset_id) ==
    {r \in relationships :
        /\ r.relationship_type = "redundant_with"
        /\ r.source_asset_id = asset_id
        /\ r.target_asset_id \in DOMAIN assets}

\* the rows of the redundant_with query: redundant_with rows with asset_id at
\* either end, joined with the asset at the other end
redundant_with_query(asset_id) ==
    {r \in relationships :
        /\ r.relationship_type = "redundant_with"
        /\ r.source_asset_id = asset_id \/ r.target_asset_id = asset_id
        /\ \E a \in DOMAIN assets :
              \/ r.source_asset_id = asset_id /\ r.target_asset_id = a
              \/ r.target_asset_id = asset_id /\ r.source_asset_id = a}

\* the backs_up query matching asset_id at either end
backs_up_query_either(asset_id) ==
    {r \in relationships :
        /\ r.relationship_type = "backs_up"
        /\ r.target_asset_id = asset_id \/ r.source_asset_id = asset_id}

\* the rows of the backs_up query: backs_up rows that target asset_id, joined
\* with their source asset
backs_up_query(asset_id) ==
    {r \in relationships :
        /\ r.target_asset_id = asset_id
        /\ r.relationship_type = "backs_up"
        /\ r.source_asset_id \in DOMAIN assets}

\* "other_id = ... ; if other_id != asset_id: redundant_assets.append(...)"
other_id(row, asset_id) ==
    IF row.source_asset_id = asset_id THEN row.target_asset_id ELSE row.source_asset_id

\* check_redundancy with has_redundancy decided by redundant_assets alone
check_redundancy_nobackup(asset_id, rows, backup_rows) ==
    LET kept == SelectSeq(rows, LAMBDA r : other_id(r, asset_id) # asset_id)
        redundant_assets == [i \in DOMAIN kept |-> other_id(kept[i], asset_id)]
        backup_assets == [i \in DOMAIN backup_rows |-> backup_rows[i].source_asset_id]
    IN  [ asset_id |-> asset_id,
          has_redundancy |-> Len(redundant_assets) > 0,
          redundant_assets |-> redundant_assets,
          backup_assets |-> backup_assets ]

\* check_redundancy, given the rows its two queries return
check_redundancy(asset_id, rows, backup_rows) ==
    LET kept == SelectSeq(rows, LAMBDA r : other_id(r, asset_id) # asset_id)
        redundant_assets == [i \in DOMAIN kept |-> other_id(kept[i], asset_id)]
        backup_assets == [i \in DOMAIN backup_rows |-> backup_rows[i].source_asset_id]
    IN  [ asset_id |-> asset_id,
          has_redundancy |-> Len(redundant_assets) > 0 \/ Len(backup_assets) > 0,
          redundant_assets |-> redundant_assets,
          backup_assets |-> backup_assets ]

\* the results check_redundancy can return
CheckRedundancy(asset_id) ==
    {check_redundancy(asset_id, rows, backup_rows) :
        rows \in fetchall(redundant_with_query(asset_id)),
        backup_rows \in fetchall(backs_up_query(asset_id))}

----------------------------------------------------------------------------
(* tools/analysis.py: find_single_points_of_failure *)

criticality_levels == <<"critical", "high", "medium", "low">>

\* every level included, whatever the threshold
included_levels_all(criticality_threshold) == criticality_levels

\* "criticality_levels.index(criticality_threshold) if criticality_threshold
\* in criticality_levels else 1", then "criticality_levels[: threshold_index + 1]"
included_levels(criticality_threshold) ==
    LET threshold_index ==
            IF criticality_threshold \in Range(criticality_levels)
            THEN (CHOOSE i \in DOMAIN criticality_levels :
                      criticality_levels[i] = criticality_threshold) - 1
            ELSE 1
    IN  SubSeq(criticality_levels, 1, threshold_index + 1)

\* _calculate_spof_risk without the cap
calculate_spof_risk_uncapped(asset_criticality, dependent_count, critical_dependents, downstream_count) ==
    LET key == IF asset_criticality = None THEN "low" ELSE asset_criticality
        base_score == CASE key = "critical" -> 100
                        [] key = "high" -> 75
                        [] key = "medium" -> 50
                        [] key = "low" -> 25
                        [] OTHER -> 25
    IN  base_score + dependent_count * 10 + critical_dependents * 25 + downstream_count * 5

\* _calculate_spof_risk
calculate_spof_risk(asset_criticality, dependent_count, critical_dependents, downstream_count) ==
    LET key == IF asset_criticality = None THEN "low" ELSE asset_criticality
        base_score == CASE key = "critical" -> 100
                        [] key = "high" -> 75
                        [] key = "medium" -> 50
                        [] key = "low" -> 25
                        [] OTHER -> 25
        total == base_score + dependent_count * 10 + critical_dependents * 25
                     + downstream_count * 5
    IN  IF total < 200 THEN total ELSE 200

\* _risk_level
risk_level(score) ==
    IF score >= 150 THEN "critical"
    ELSE IF score >= 100 THEN "high"
    ELSE IF score >= 50 THEN "medium"
    ELSE "low"

\* _spof_recommendation: the message and the count it is formatted with
spof_recommendation(criticality, dependent_count, critical_dependents) ==
    IF critical_dependents > 0
    THEN <<"URGENT: Add redundancy", critical_dependents>>
    ELSE IF dependent_count > 3
    THEN <<"HIGH PRIORITY: Multiple systems depend on this asset", dependent_count>>
    ELSE IF criticality = "critical"
    THEN <<"Critical asset without redundancy - evaluate backup options">>
    ELSE <<"Consider adding redundancy or backup procedures">>

\* "max_depth=3" of the find_dependents call
SpofMaxDepth == 3

\* "SELECT COUNT(*) ... FROM relationships WHERE source_asset_id = ?"
downstream_count_query(asset_id) ==
    Cardinality({r \in relationships : r.source_asset_id = asset_id})

\* the loop body for a candidate that has dependents only (the downstream
\* test dropped)
spof_row_dependents_only(row, redundancy, dependents) ==
    IF redundancy.has_redundancy THEN <<>>
    ELSE LET dependent_count == Len(dependents.assets)
             downstream_count == downstream_count_query(row.id)
             critical == SelectSeq(dependents.assets, LAMBDA d : d.criticality = "critical")
             critical_dependents == Len(critical)
             criticality == row.criticality
         IN  IF dependent_count > 0
             THEN LET risk_score == calculate_spof_risk(criticality, dependent_count,
                                                        critical_dependents, downstream_count)
                  IN << [ id |-> row.id,
                          criticality |-> criticality,
                          dependent_count |-> dependent_count,
                          critical_dependents |-> critical_dependents,
                          downstream_count |-> downstream_count,
                          risk_score |-> risk_score,
                          risk_level |-> risk_level(risk_score),
                          recommendation |-> spof_recommendation(criticality, dependent_count,
                                                                 critical_dependents) ] >>
             ELSE <<>>

\* the body of "for row in rows:" for one candidate: no entry, or its entry
spof_row(row, redundancy, dependents) ==
    IF redundancy.has_redundancy THEN <<>>
    ELSE LET dependent_count == Len(dependents.assets)
             downstream_count == downstream_count_query(row.id)
             critical == SelectSeq(dependents.assets, LAMBDA d : d.criticality = "critical")
             critical_dependents == Len(critical)
             criticality == row.criticality
         IN  IF dependent_count > 0 \/ downstream_count > 2
             THEN LET risk_score == calculate_spof_risk(criticality, dependent_count,
                                                        critical_dependents, downstream_count)
                  IN << [ id |-> row.id,
                          criticality |-> criticality,
                          dependent_count |-> dependent_count,
                          critical_dependents |-> critical_dependents,
                          downstream_count |-> downstream_count,
                          risk_score |-> risk_score,
                          risk_level |-> risk_level(risk_score),
                          recommendation |-> spof_recommendation(criticality, dependent_count,
                                                                 critical_dependents) ] >>
             ELSE <<>>

\* what the loop body can append for a candidate
SpofRow(row) ==
    {spof_row(row, redundancy, dependents) :
        redundancy \in CheckRedundancy(row.id),
        dependents \in find_dependents(row.id, SpofMaxDepth)}

\* "for row in rows:" over the candidates in the order they were fetched
RECURSIVE SpofLoop(_)
SpofLoop(rows) ==
    IF rows = <<>> THEN {<<>>}
    ELSE {entry \o rest : entry \in SpofRow(Head(rows)), rest \in SpofLoop(Tail(rows))}

\* the list left in the order the loop built it
sort_by_risk_score_unsorted(spofs) == spofs

\* "spofs.sort(key=lambda x: x["risk_score"], reverse=True)": a stable sort
RECURSIVE sort_by_risk_score(_)
sort_by_risk_score(spofs) ==
    IF spofs = <<>> THEN <<>>
    ELSE LET sorted == sort_by_risk_score(SubSeq(spofs, 1, Len(spofs) - 1))
             x == spofs[Len(spofs)]
             ahead == SelectSeq(sorted, LAMBDA y : y.risk_score >= x.risk_score)
             behind == SelectSeq(sorted, LAMBDA y : y.risk_score < x.risk_score)
         IN  ahead \o <<x>> \o behind

\* the candidate query, with no process_area filter
candidates_query(criticality_threshold) ==
    {[id |-> a, criticality |-> assets[a].criticality] :
        a \in {x \in DOMAIN assets :
                  assets[x].criticality \in Range(included_levels(criticality_threshold))}}

\* the lists find_single_points_of_failure(None, criticality_threshold) can return
find_single_points_of_failure(criticality_threshold) ==
    {sort_by_risk_score(spofs) :
        spofs \in UNION {SpofLoop(rows) :
                            rows \in fetchall(candidates_query(criticality_threshold))}}

----------------------------------------------------------------------------
(* tools/analysis.py: analyze_impact *)

\* the process_areas table: ids and names; two areas share a name
process_areas ==
    [pa \in {"PA1", "PA2", "PA3"} |->
        [name |-> IF pa = "PA2" THEN "Filtration" ELSE "Intake"]]

\* "LEFT JOIN process_areas pa ON a.process_area_id = pa.id": pa.name or NULL
process_area_name(a) ==
    IF assets[a].process_area_id \in DOMAIN process_areas
    THEN process_areas[assets[a].process_area_id].name
    ELSE None

\* "max_depth=5" of the find_dependents call
ImpactMaxDepth == 5

\* the directly-affected query: the rows that leave asset_id, joined with
\* their target asset
directly_affected_query(asset_id) ==
    {r \in relationships :
        r.source_asset_id = asset_id /\ r.target_asset_id \in DOMAIN assets}

\* the list comprehension over the rows of the directly-affected query
directly_affected_list(rows) ==
    [i \in DOMAIN rows |->
        [ id |-> rows[i].target_asset_id,
          criticality |-> assets[rows[i].target_asset_id].criticality,
          process_area |-> process_area_name(rows[i].target_asset_id),
          impact_type |-> rows[i].relationship_type ]]

\* the list comprehension over dependents["dependents"]
cascade_effects_list(dependents) ==
    [i \in DOMAIN dependents.assets |->
        [ id |-> dependents.assets[i].id,
          criticality |-> dependents.assets[i].criticality,
          dependency_depth |-> dependents.assets[i].depth,
          dependency_path |-> dependents.assets[i].dependency_path ]]

\* "{asset_id} | {a["id"] for a in directly_affected} | {a["id"] for a in cascade_effects}"
affected_ids_of(asset_id, directly_affected, cascade_effects) ==
    {asset_id} \cup {directly_affected[i].id : i \in DOMAIN directly_affected}
               \cup {cascade_effects[i].id : i \in DOMAIN cascade_effects}

\* "SELECT DISTINCT pa.name FROM assets a JOIN process_areas pa ... WHERE a.id IN (...)"
process_areas_query(affected_ids) ==
    {process_area_name(a) :
        a \in {x \in affected_ids \cap DOMAIN assets :
                  assets[x].process_area_id \in DOMAIN process_areas}}

\* the safety count with a relationship counted for either of its ends
safety_count_either(ids) ==
    Cardinality({r \in relationships :
                    /\ r.source_asset_id \in ids \/ r.target_asset_id \in ids
                    /\ r.relationship_type = "safety_interlock_for"})

\* "SELECT COUNT(*) ... WHERE source_asset_id IN (...) AND relationship_type =
\* 'safety_interlock_for'"
safety_count(ids) ==
    Cardinality({r \in relationships :
                    /\ r.source_asset_id \in ids
                    /\ r.relationship_type = "safety_interlock_for"})

\* the two safety checks: the root, then the affected ids
safety_affected_of(asset_id, affected_ids) ==
    LET root_affected == safety_count({asset_id}) > 0
    IN  IF ~root_affected /\ affected_ids # {}
        THEN safety_count(affected_ids) > 0
        ELSE root_affected

\* the summary counting each affected id once
criticality_summary_dedup(all_affected) ==
    LET ids == {all_affected[i].id : i \in DOMAIN all_affected}
    IN  [level \in {"critical", "high", "medium", "low"} |->
            Cardinality({a \in ids : assets[a].criticality = level})]

\* "criticality_summary = {...}": the entries of all_affected per level
criticality_summary(all_affected) ==
    [level \in {"critical", "high", "medium", "low"} |->
        Len(SelectSeq(all_affected, LAMBDA a : a.criticality = level))]

\* the recommendations, in the order they are appended
recommendations_of(redundancy, summary, safety_affected, process_areas_found) ==
    (IF ~redundancy.has_redundancy
     THEN << <<"CRITICAL: no redundancy configured">> >> ELSE <<>>)
    \o (IF summary["critical"] > 0
        THEN << <<"Failure would affect critical asset(s)", summary["critical"]>> >> ELSE <<>>)
    \o (IF safety_affected
        THEN << <<"WARNING: Safety systems may be affected">> >> ELSE <<>>)
    \o (IF Cardinality(process_areas_found) > 1
        THEN << <<"Impact spans process areas", Cardinality(process_areas_found)>> >> ELSE <<>>)

\* the report with the cascade kept for a complete failure only
impact_report_by_failure_type(asset_id, failure_type, rows, dependents, redundancy, area_list) ==
    LET directly_affected == directly_affected_list(rows)
        cascade_effects == IF failure_type = "complete"
                           THEN cascade_effects_list(dependents) ELSE <<>>
        affected_ids == affected_ids_of(asset_id, directly_affected, cascade_effects)
        safety_affected == safety_affected_of(asset_id, affected_ids)
        all_affected == directly_affected \o cascade_effects
        summary == criticality_summary(all_affected)
    IN  [ op |-> "analyze_impact", pc |-> "done", asset_id |-> asset_id,
          ran |-> <<"fetch_asset", "directly_affected", "find_dependents", "check_redundancy">>,
          failing_asset |-> [ id |-> asset_id,
                              criticality |-> assets[asset_id].criticality,
                              process_area |-> process_area_name(asset_id) ],
          failure_type |-> failure_type,
          directly_affected |-> directly_affected,
          directly_affected_count |-> Len(directly_affected),
          cascade_effects |-> cascade_effects,
          cascade_count |-> Len(cascade_effects),
          total_affected |-> Len(all_affected),
          affected_process_areas |-> area_list,
          criticality_summary |-> summary,
          safety_implications |-> safety_affected,
          has_redundancy |-> redundancy.has_redundancy,
          redundancy_details |-> redundancy,
          recommendations |-> recommendations_of(redundancy, summary, safety_affected,
                                                 Range(area_list)) ]

\* the report analyze_impact builds once the asset is found, given what its
\* queries and calls returned
impact_report(asset_id, failure_type, rows, dependents, redundancy, area_list) ==
    LET directly_affected == directly_affected_list(rows)
        cascade_effects == cascade_effects_list(dependents)
        affected_ids == affected_ids_of(asset_id, directly_affected, cascade_effects)
        safety_affected == safety_affected_of(asset_id, affected_ids)
        all_affected == directly_affected \o cascade_effects
        summary == criticality_summary(all_affected)
    IN  [ op |-> "analyze_impact", pc |-> "done", asset_id |-> asset_id,
          ran |-> <<"fetch_asset", "directly_affected", "find_dependents", "check_redundancy">>,
          failing_asset |-> [ id |-> asset_id,
                              criticality |-> assets[asset_id].criticality,
                              process_area |-> process_area_name(asset_id) ],
          failure_type |-> failure_type,
          directly_affected |-> directly_affected,
          directly_affected_count |-> Len(directly_affected),
          cascade_effects |-> cascade_effects,
          cascade_count |-> Len(cascade_effects),
          total_affected |-> Len(all_affected),
          affected_process_areas |-> area_list,
          criticality_summary |-> summary,
          safety_implications |-> safety_affected,
          has_redundancy |-> redundancy.has_redundancy,
          redundancy_details |-> redundancy,
          recommendations |-> recommendations_of(redundancy, summary, safety_affected,
                                                 Range(area_list)) ]

\* the reports analyze_impact can return for an asset of the store
ImpactReports(asset_id, failure_type) ==
    UNION {
        {impact_report(asset_id, failure_type, rows, dependents, redundancy, area_list) :
            redundancy \in CheckRedundancy(asset_id),
            area_list \in fetchall(process_areas_query(
                            affected_ids_of(asset_id, directly_affected_list(rows),
                                            cascade_effects_list(dependents))))} :
        rows \in fetchall(directly_affected_query(asset_id)),
        dependents \in find_dependents(asset_id, ImpactMaxDepth)}

\* "return {"error": f"Asset {asset_id} not found"}"
impact_not_found(asset_id) ==
    [ op |-> "analyze_impact", pc |-> "done", asset_id |-> asset_id,
      error |-> <<"Asset not found", asset_id>>,
      ran |-> <<"fetch_asset">> ]

\* analyze_impact answering an unknown id with a report of nothing affected
analyze_impact_empty_report(asset_id, failure_type) ==
    IF ~AssetExists(asset_id)
    THEN {[ op |-> "analyze_impact", pc |-> "done", asset_id |-> asset_id,
            ran |-> <<"fetch_asset", "directly_affected", "find_dependents", "check_redundancy">>,
            failure_type |-> failure_type,
            directly_affected |-> <<>>, cascade_effects |-> <<>>,
            criticality_summary |-> criticality_summary(<<>>),
            recommendations |-> <<>> ]}
    ELSE ImpactReports(asset_id, failure_type)

\* the results analyze_impact(asset_id, failure_type) can return
analyze_impact(asset_id, failure_type) ==
    IF ~AssetExists(asset_id)
    THEN {impact_not_found(asset_id)}
    ELSE ImpactReports(asset_id, failure_type)

----------------------------------------------------------------------------
(* The SPOF specification: stores with redundancy and dependency rows and  *)
(* assets of every criticality, calls of find_single_points_of_failure,    *)
(* and applications of _calculate_spof_risk to argument tuples.            *)

\* "CHECK (criticality IN ('critical', 'high', 'medium', 'low') OR criticality IS NULL)"
Criticalities == {"critical", "high", "medium", "low", None}

\* relationship types of the enumerated SPOF stores
SpofTypes == {"depends_on", "redundant_with", "backs_up", "controls"}

\* thresholds a caller passes: the four levels and an unrecognized word
Thresholds == {"critical", "high", "medium", "low", "urgent"}

ChainIds == {"A", "B", "C", "D", "E"}

\* two assets of any criticality, four relationship types
InitSpofPair ==
    /\ assets \in {[i \in PairIds |-> [criticality |-> c[i]]] : c \in [PairIds -> Criticalities]}
    /\ relationships \in TablesOver(RowsOver(PairIds, SpofTypes), MaxRels)
    /\ call = Idle
    /\ review_flags = {}
    /\ writer = Idle

\* three assets, dependency rows only
InitSpofChains ==
    /\ assets \in {[i \in StoreIds |-> [criticality |-> c[i]]] :
                      c \in [StoreIds -> {"critical", "medium", None}]}
    /\ relationships \in TablesOver(RowsOver(StoreIds, {"depends_on"}), MaxRels)
    /\ call = Idle
    /\ review_flags = {}
    /\ writer = Idle

\* a critical asset with two dependents, one of them critical, and three
\* outgoing rows
SpofExampleAssets ==
    [i \in StoreIds |-> [criticality |-> IF i = "C" THEN "low" ELSE "critical"]]
SpofExampleRelationships ==
    { Rel("B", "A", "depends_on"), Rel("C", "A", "depends_on"),
      Rel("A", "B", "controls"), Rel("A", "C", "controls"), Rel("A", "B", "monitors") }

InitSpofExample ==
    /\ assets = SpofExampleAssets
    /\ relationships = SpofExampleRelationships
    /\ call = Idle
    /\ review_flags = {}
    /\ writer = Idle

\* five critical assets in one dependency chain E -> D -> C -> B -> A
DeepChainAssets == [i \in ChainIds |-> [criticality |-> "critical"]]
DeepChainRelationships ==
    { Rel("B", "A", "depends_on"), Rel("C", "B", "depends_on"),
      Rel("D", "C", "depends_on"), Rel("E", "D", "depends_on") }

InitSpofDeepChain ==
    /\ assets = DeepChainAssets
    /\ relationships = DeepChainRelationships
    /\ call = Idle
    /\ review_flags = {}
    /\ writer = Idle

\* the argument tuples of _calculate_spof_risk
InitRiskArgs ==
    /\ assets = << >>
    /\ relationships = {}
    /\ call \in {[ op |-> "_calculate_spof_risk", pc |-> "args",
                   asset_criticality |-> c, dependent_count |-> d,
                   critical_dependents |-> k, downstream_count |-> n ] :
                    c \in Criticalities, d \in 0..MaxCount, k \in 0..MaxCount,
                    n \in 0..MaxCount}
    /\ call.critical_dependents <= call.dependent_count
    /\ review_flags = {}
    /\ writer = Idle

InitSpof ==
    \/ InitSpofPair
    \/ InitSpofChains
    \/ InitSpofExample
    \/ InitSpofDeepChain
    \/ InitEmpty
    \/ InitRiskArgs

FindSinglePointsOfFailure ==
    /\ call.pc = "idle"
    /\ \E criticality_threshold \in Thresholds :
          \E spofs \in find_single_points_of_failure(criticality_threshold) :
              call' = [ op |-> "find_single_points_of_failure", pc |-> "done",
                        criticality_threshold |-> criticality_threshold,
                        spofs |-> spofs ]
    /\ UNCHANGED <<assets, relationships, review_flags, writer>>

CalculateSpofRisk ==
    /\ call.pc = "args"
    /\ call.op = "_calculate_spof_risk"
    /\ LET risk_score == calculate_spof_risk(call.asset_criticality, call.dependent_count,
                                             call.critical_dependents, call.downstream_count)
       IN  call' = [ op |-> "_calculate_spof_risk", pc |-> "done",
                     asset_criticality |-> call.asset_criticality,
                     dependent_count |-> call.dependent_count,
                     critical_dependents |-> call.critical_dependents,
                     downstream_count |-> call.downstream_count,
                     risk_score |-> risk_score,
                     risk_level |-> risk_level(risk_score) ]
    /\ UNCHANGED <<assets, relationships, review_flags, writer>>

NextSpof == FindSinglePointsOfFailure \/ CalculateSpofRisk

SpecSpof == InitSpof /\ [][NextSpof]_vars

----------------------------------------------------------------------------
(* The redundancy specification: stores with redundant_with and backs_up   *)
(* rows among three assets, and calls of check_redundancy.                 *)

RedundancyTypes == {"redundant_with", "backs_up"}

InitRedundancy ==
    \/ /\ assets = [i \in StoreIds |-> [criticality |-> "high"]]
       /\ relationships \in TablesOver(RowsOver(StoreIds, RedundancyTypes), MaxRels)
       /\ call = Idle
       /\ review_flags = {}
       /\ writer = Idle
    \/ InitEmpty

\* CheckRedundancyCall recording a review flag for an asset without redundancy
CheckRedundancyCall_flagging ==
    /\ call.pc = "idle"
    /\ \E asset_id \in Roots :
          \E r \in CheckRedundancy(asset_id) :
              /\ call' = [ op |-> "check_redundancy", pc |-> "done",
                           asset_id |-> r.asset_id,
                           has_redundancy |-> r.has_redundancy,
                           redundant_assets |-> r.redundant_assets,
                           backup_assets |-> r.backup_assets ]
              /\ review_flags' =
                    IF r.has_redundancy THEN review_flags
                    ELSE review_flags \cup
                            {[id |-> <<"uuid", Cardinality(review_flags) + 1>>,
                              asset_id |-> asset_id,
                              relationship_id |-> <<"None", 0>>,
                              flag_type |-> "potential_issue",
                              status |-> "open"]}
    /\ UNCHANGED <<assets, relationships, writer>>

CheckRedundancyCall ==
    /\ call.pc = "idle"
    /\ \E asset_id \in Roots :
          \E r \in CheckRedundancy(asset_id) :
              call' = [ op |-> "check_redundancy", pc |-> "done",
                        asset_id |-> r.asset_id,
                        has_redundancy |-> r.has_redundancy,
                        redundant_assets |-> r.redundant_assets,
                        backup_assets |-> r.backup_assets ]
    /\ UNCHANGED <<assets, relationships, review_flags, writer>>

NextRedundancy == CheckRedundancyCall

SpecRedundancy == InitRedundancy /\ [][NextRedundancy]_vars

----------------------------------------------------------------------------
(* The impact specification: stores whose assets carry a criticality and a *)
(* process area, and calls of analyze_impact.                              *)

\* the asset tables of the impact stores
ImpactAssets ==
    { [A |-> [criticality |-> "critical", process_area_id |-> "PA1"],
       B |-> [criticality |-> "high", process_area_id |-> "PA2"],
       C |-> [criticality |-> None, process_area_id |-> None]],
      [A |-> [criticality |-> "medium", process_area_id |-> "PA1"],
       B |-> [criticality |-> "critical", process_area_id |-> "PA1"],
       C |-> [criticality |-> "critical", process_area_id |-> "PA3"]] }

\* failure types a caller passes: the three documented ones and another word
FailureTypes == {"complete", "degraded", "intermittent", "partial"}

\* control and dependency rows
InitImpactControls ==
    /\ assets \in ImpactAssets
    /\ relationships \in TablesOver(RowsOver(StoreIds, {"controls", "depends_on"}), MaxRels)
    /\ call = Idle
    /\ review_flags = {}
    /\ writer = Idle

\* two of the assets, with safety interlock rows as well
InitImpactSafety ==
    /\ assets \in {[i \in PairIds |-> t[i]] : t \in ImpactAssets}
    /\ relationships \in
          TablesOver(RowsOver(PairIds, {"controls", "depends_on", "safety_interlock_for"}),
                     MaxRels)
    /\ call = Idle
    /\ review_flags = {}
    /\ writer = Idle

InitImpact == InitImpactControls \/ InitImpactSafety \/ InitEmpty

AnalyzeImpact ==
    /\ call.pc = "idle"
    /\ \E asset_id \in Roots, failure_type \in FailureTypes :
          call' \in analyze_impact(asset_id, failure_type)
    /\ UNCHANGED <<assets, relationships, review_flags, writer>>

NextImpact == AnalyzeImpact

SpecImpact == InitImpact /\ [][NextImpact]_vars

----------------------------------------------------------------------------
(* tools/analysis.py: get_critical_path *)

\* "visited = set()", "queue = deque([(source_asset_id, [source_asset_id])])"
path_init(source_asset_id, target_asset_id) ==
    [ op |-> "get_critical_path", pc |-> "loop",
      source_asset_id |-> source_asset_id,
      target_asset_id |-> target_asset_id,
      visited |-> {},
      queue |-> << [id |-> source_asset_id, path |-> <<source_asset_id>>] >> ]

\* the neighbour query following outgoing rows only
connected_query_outgoing(current_id) ==
    {r.target_asset_id : r \in {x \in relationships : x.source_asset_id = current_id}}

\* "SELECT target_asset_id ... WHERE source_asset_id = ? UNION SELECT
\* source_asset_id ... WHERE target_asset_id = ?"
connected_query(current_id) ==
    {r.target_asset_id : r \in {x \in relationships : x.source_asset_id = current_id}}
    \cup {r.source_asset_id : r \in {x \in relationships : x.target_asset_id = current_id}}

\* the label looked up in both directions
relationship_to_next_either(asset_id, next_id) ==
    LET types == {r.relationship_type :
                     r \in {x \in relationships :
                               \/ /\ x.source_asset_id = asset_id
                                  /\ x.target_asset_id = next_id
                               \/ /\ x.source_asset_id = next_id
                                  /\ x.target_asset_id = asset_id}}
    IN  IF types = {} THEN {None} ELSE types

\* what rel_cursor.fetchone() can give for the pair: a relationship type of a
\* row from asset_id to next_id, or nothing
relationship_to_next(asset_id, next_id) ==
    LET types == {r.relationship_type :
                     r \in {x \in relationships : /\ x.source_asset_id = asset_id
                                                  /\ x.target_asset_id = next_id}}
    IN  IF types = {} THEN {None} ELSE types

\* the path_details lists the "for i, asset_id in enumerate(path)" loop can
\* build from position i (0-based) on
RECURSIVE path_details(_, _)
path_details(path, i) ==
    IF i >= Len(path) THEN {<<>>}
    ELSE LET asset_id == path[i + 1]
             rest == path_details(path, i + 1)
         IN  IF ~AssetExists(asset_id) THEN rest
             ELSE {<< [ id |-> asset_id,
                        criticality |-> assets[asset_id].criticality,
                        position |-> i,
                        relationship_to_next |-> rel ] >> \o tail :
                      rel \in (IF i < Len(path) - 1
                               THEN relationship_to_next(asset_id, path[i + 2])
                               ELSE {None}),
                      tail \in rest}

\* one iteration of "while queue:"
path_iter(c) ==
    LET current_id == Head(c.queue).id
        path == Head(c.queue).path
        rest == Tail(c.queue)
    IN  IF current_id = c.target_asset_id
        THEN {[ op |-> c.op, pc |-> "done",
                source_asset_id |-> c.source_asset_id,
                target_asset_id |-> c.target_asset_id,
                found |-> TRUE,
                path_length |-> Len(path),
                path |-> details ] : details \in path_details(path, 0)}
        ELSE IF current_id \in c.visited
        THEN {[c EXCEPT !.queue = rest]}
        ELSE LET visited == c.visited \cup {current_id}
             IN  {[c EXCEPT !.visited = visited,
                            !.queue = rest \o
                                [i \in DOMAIN SelectSeq(rows, LAMBDA n : n \notin visited) |->
                                    [ id |-> SelectSeq(rows, LAMBDA n : n \notin visited)[i],
                                      path |-> path \o
                                          <<SelectSeq(rows, LAMBDA n : n \notin visited)[i]>> ]]] :
                    rows \in fetchall(connected_query(current_id))}

\* "return {"found": False, ...}"
path_not_found(c) ==
    [ op |-> c.op, pc |-> "done",
      source_asset_id |-> c.source_asset_id,
      target_asset_id |-> c.target_asset_id,
      found |-> FALSE,
      message |-> <<"No path found between", c.source_asset_id, c.target_asset_id>> ]

----------------------------------------------------------------------------
(* The path specification: calls of get_critical_path, one iteration of    *)
(* the while loop per step.  A call that can take a step eventually does.  *)

\* three assets, one relationship type
InitPathTriples ==
    /\ assets = [i \in StoreIds |-> [criticality |-> "high"]]
    /\ relationships \in TablesOver(RowsOver(StoreIds, {"controls"}), MaxRels)
    /\ call = Idle
    /\ review_flags = {}
    /\ writer = Idle

\* two assets, two relationship types: parallel rows in both directions
InitPathPairs ==
    /\ assets = [i \in PairIds |-> [criticality |-> "high"]]
    /\ relationships \in TablesOver(RowsOver(PairIds, TraverseTypes), MaxRels)
    /\ call = Idle
    /\ review_flags = {}
    /\ writer = Idle

InitPath == InitPathTriples \/ InitPathPairs \/ InitSpofDeepChain \/ InitEmpty

StartGetCriticalPath ==
    /\ call.pc = "idle"
    /\ \E source_asset_id \in Roots, target_asset_id \in Roots :
          call' = path_init(source_asset_id, target_asset_id)
    /\ UNCHANGED <<assets, relationships, review_flags, writer>>

PathStep ==
    /\ call.pc = "loop"
    /\ call.queue # <<>>
    /\ call' \in path_iter(call)
    /\ UNCHANGED <<assets, relationships, review_flags, writer>>

PathReturn ==
    /\ call.pc = "loop"
    /\ call.queue = <<>>
    /\ call' = path_not_found(call)
    /\ UNCHANGED <<assets, relationships, review_flags, writer>>

NextPath == StartGetCriticalPath \/ PathStep \/ PathReturn

SpecPath == InitPath /\ [][NextPath]_vars /\ WF_vars(PathStep) /\ WF_vars(PathReturn)

----------------------------------------------------------------------------
(* What the traversal results are compared with: reachability in the       *)
(* relationship graph, defined on sets of edges with no queue.             *)

\* the edges <<from, to>> a traversal follows: forward along source -> target,
\* backward along target -> source, over the rows the type filter admits
ForwardEdges(types) ==
    {<<r.source_asset_id, r.target_asset_id>> :
        r \in {x \in relationships : types = {} \/ x.relationship_type \in types}}
BackwardEdges(types) ==
    {<<r.target_asset_id, r.source_asset_id>> :
        r \in {x \in relationships : types = {} \/ x.relationship_type \in types}}

\* the ids within k edges of root
RECURSIVE Within(_, _, _)
Within(root, edges, k) ==
    IF k <= 0 THEN {root}
    ELSE LET near == Within(root, edges, k - 1)
         IN near \cup {e[2] : e \in {x \in edges : x[1] \in near}}

\* the ids other than root that a path of 1..d edges reaches
Reachable(root, edges, d) ==
    IF d < 0 THEN {} ELSE Within(root, edges, d) \ {root}

\* the length of a shortest path from root to v (v reachable)
Distance(root, edges, v) ==
    CHOOSE k \in 0..Cardinality(edges) :
        /\ v \in Within(root, edges, k)
        /\ k > 0 => v \notin Within(root, edges, k - 1)

TraverseDone ==
    call.pc = "done" /\ call.op \in {"traverse_upstream", "traverse_downstream"}

\* the edges the returned call followed
CallEdges ==
    IF call.op = "traverse_downstream" THEN ForwardEdges(call.relationship_types)
    ELSE BackwardEdges(call.relationship_types)

ResultIds == {call.assets[i].id : i \in DOMAIN call.assets}

\* C1: the asset list returned by traverse_upstream / traverse_downstream
\* never contains the root asset and never contains an asset id twice
C1_NoRootNoDuplicate ==
    TraverseDone =>
        /\ \A i \in DOMAIN call.assets : call.assets[i].id # call.root
        /\ \A i, j \in DOMAIN call.assets : i # j => call.assets[i].id # call.assets[j].id

\* C1's case: a traversal returned an asset from a root that has a self-loop
\* (a cycle through the root) and two parallel rows to or from a neighbour
C1_Witness ==
    /\ TraverseDone
    /\ Len(call.assets) >= 1
    /\ \E r \in relationships :
          r.source_asset_id = call.root /\ r.target_asset_id = call.root
    /\ \E r1, r2 \in relationships :
          /\ r1 # r2
          /\ r1.source_asset_id = r2.source_asset_id
          /\ r1.target_asset_id = r2.target_asset_id
          /\ call.root \in {r1.source_asset_id, r1.target_asset_id}
          /\ r1.source_asset_id # r1.target_asset_id

\* C2: every entry returned for max_depth = d has 0 < depth <= d; an asset
\* whose shortest path has exactly d edges is returned, one whose shortest
\* path has d + 1 edges is not; d <= 0 returns the empty list
C2_DepthWithinMax ==
    TraverseDone =>
        /\ \A i \in DOMAIN call.assets :
              0 < call.assets[i].depth /\ call.assets[i].depth <= call.max_depth
        /\ call.max_depth <= 0 => call.assets = <<>>
        /\ \A v \in DOMAIN assets :
              /\ v \in Reachable(call.root, CallEdges, call.max_depth + 1)
              /\ v \notin Reachable(call.root, CallEdges, call.max_depth)
              => v \notin ResultIds
        /\ \A v \in DOMAIN assets :
              /\ call.max_depth > 0
              /\ v \in Reachable(call.root, CallEdges, call.max_depth)
              /\ v \notin Reachable(call.root, CallEdges, call.max_depth - 1)
              => \E i \in DOMAIN call.assets :
                    call.assets[i].id = v /\ call.assets[i].depth = call.max_depth

\* C2's case: a traversal returned an asset at depth max_depth while another
\* asset, one edge further, was enqueued and dropped
C2_Witness ==
    /\ TraverseDone
    /\ call.max_depth >= 1
    /\ \E i \in DOMAIN call.assets : call.assets[i].depth = call.max_depth
    /\ Reachable(call.root, CallEdges, call.max_depth + 1)
          # Reachable(call.root, CallEdges, call.max_depth)

\* C3: a traversal returns exactly the assets other than the root that a path
\* of 1..max_depth edges of the filtered types reaches in its direction, each
\* once, and the depth recorded is the length of a shortest such path
C3_ExactlyReachableAtShortestDepth ==
    TraverseDone =>
        /\ ResultIds = Reachable(call.root, CallEdges, call.max_depth)
        /\ Len(call.assets) = Cardinality(Reachable(call.root, CallEdges, call.max_depth))
        /\ \A i \in DOMAIN call.assets :
              call.assets[i].depth = Distance(call.root, CallEdges, call.assets[i].id)

\* C3's case: on the pure cycle A -> B -> C -> A a filtered downstream
\* traversal from A with max_depth >= 2 returned B at depth 1 and C at depth 2
C3_Witness ==
    /\ relationships = {Rel("A", "B", "controls"), Rel("B", "C", "controls"),
                        Rel("C", "A", "controls")}
    /\ TraverseDone /\ call.op = "traverse_downstream"
    /\ call.root = "A" /\ call.max_depth >= 2
    /\ call.relationship_types = {"controls"}
    /\ [i \in DOMAIN call.assets |-> <<call.assets[i].id, call.assets[i].depth>>]
          = << <<"B", 1>>, <<"C", 2>> >>

InLoop == call.pc \in {"loop", "done"}

\* the ids a call can expand: the assets, and the root it was given
Expandable == DOMAIN assets \cup {call.root}

\* an iteration either marks one more id visited or only shortens the queue
IterationProgress ==
    (call.pc = "loop" /\ call'.pc = "loop") =>
        \/ /\ call.visited \subseteq call'.visited
           /\ Cardinality(call'.visited) = Cardinality(call.visited) + 1
        \/ /\ call'.visited = call.visited
           /\ Len(call'.queue) < Len(call.queue)

ExpandedOnce ==
    \A i, j \in DOMAIN call.expanded : i # j => call.expanded[i] # call.expanded[j]

\* C4 as claimed: no id is expanded twice and the number of expansions is at
\* most the number of assets
C4_ExpansionsBoundedByAssets ==
    InLoop => /\ ExpandedOnce
              /\ Len(call.expanded) <= Cardinality(DOMAIN assets)

\* C4, amended: every call of traverse_upstream, traverse_downstream and
\* find_dependents returns; no id is expanded twice in a call, every iteration
\* marks a new id visited or shortens the queue, the visited ids are assets or
\* the root, and the number of expansions is at most the number of assets
\* plus one for a root that is not an asset
C4_TerminatesExpandingOnce ==
    /\ [](InLoop => /\ ExpandedOnce
                    /\ call.visited = Range(call.expanded)
                    /\ call.visited \subseteq Expandable
                    /\ Len(call.expanded) <= Cardinality(Expandable))
    /\ [][IterationProgress]_vars
    /\ (call.pc = "loop") ~> (call.pc = "done")

\* C4's case: a downstream call returned after expanding all three assets of
\* a store in which an expanded asset has a relationship back to the root
C4_Witness ==
    /\ call.pc = "done"
    /\ call.op = "traverse_downstream"
    /\ Cardinality(DOMAIN assets) = 3
    /\ Len(call.expanded) = 3
    /\ \E r \in relationships :
          /\ r.target_asset_id = call.root
          /\ r.source_asset_id # call.root
          /\ r.source_asset_id \in Range(call.expanded)

\* C5: the returned asset list is in non-decreasing depth order
C5_NonDecreasingDepth ==
    TraverseDone =>
        \A i, j \in DOMAIN call.assets :
            i < j => call.assets[i].depth <= call.assets[j].depth

\* C5's case: a traversal returned three assets, the last one shallower than
\* an asset one of the earlier ones leads to
C5_Witness ==
    /\ TraverseDone
    /\ Len(call.assets) >= 3
    /\ call.assets[1].depth = 1
    /\ call.assets[2].depth = 1
    /\ call.assets[3].depth = 2
    /\ <<call.assets[1].id, call.assets[3].id>> \in CallEdges

DependentsDone == call.pc = "done" /\ call.op = "find_dependents"

\* the edges find_dependents follows: from the target of a depends_on row to
\* its source
DependsOnEdges == BackwardEdges({"depends_on"})

InScenario == assets = ScenarioAssets /\ relationships = ScenarioRelationships

Entries == [i \in DOMAIN call.assets |->
              <<call.assets[i].id, call.assets[i].depth, call.assets[i].dependency_path>>]

\* C6: find_dependents(Y, d) returns X iff X # Y and a chain of 1..d
\* depends_on rows leads from X to Y; rows of other types and depends_on rows
\* leaving Y add nothing.  In the scenario find_dependents(PLC1, 5) is PLC2 at
\* depth 1 with path PLC1, PLC2, and the forward traversal from PLC1 is Valve1
\* at depth 1
C6_DependentsAreDependsOnChains ==
    /\ DependentsDone =>
          ResultIds = Reachable(call.root, DependsOnEdges, call.max_depth)
    /\ (DependentsDone /\ InScenario /\ call.root = "PLC1" /\ call.max_depth = 5) =>
          Entries = << <<"PLC2", 1, <<"PLC1", "PLC2">> >> >>
    /\ (TraverseDone /\ InScenario /\ call.op = "traverse_downstream"
          /\ call.relationship_types = {} /\ call.root = "PLC1" /\ call.max_depth = 5) =>
          [i \in DOMAIN call.assets |-> <<call.assets[i].id, call.assets[i].depth>>]
             = << <<"Valve1", 1>> >>

\* C6's case: find_dependents(PLC1, 5) returned in the scenario store
C6_Witness ==
    /\ DependentsDone /\ InScenario
    /\ call.root = "PLC1" /\ call.max_depth = 5
    /\ Len(call.assets) = 1

\* C7: every dependency_path starts with the root, ends with the dependent,
\* has depth + 1 elements, none repeated, each element depends_on the one
\* before it, and no shorter chain exists; the root is never a dependent
C7_DependencyPathIsShortestChain ==
    DependentsDone =>
        \A i \in DOMAIN call.assets :
            LET d == call.assets[i]
                p == d.dependency_path
            IN  /\ d.id # call.root
                /\ Len(p) = d.depth + 1
                /\ p[1] = call.root
                /\ p[Len(p)] = d.id
                /\ \A j, k \in DOMAIN p : j # k => p[j] # p[k]
                /\ \A j \in 1..(Len(p) - 1) :
                      Rel(p[j + 1], p[j], "depends_on") \in relationships
                /\ d.depth = Distance(call.root, DependsOnEdges, d.id)

\* C7's case: the root lies on a depends_on cycle of three assets, and the
\* other two were returned, the farther one at depth 2
C7_Witness ==
    /\ DependentsDone
    /\ \E i \in DOMAIN call.assets :
          /\ call.assets[i].depth = 2
          /\ Rel(call.root, call.assets[i].id, "depends_on") \in relationships
    /\ Cardinality(relationships) = 3
    /\ Len(call.assets) = 2

----------------------------------------------------------------------------
(* Single points of failure *)

SpofDone == call.pc = "done" /\ call.op = "find_single_points_of_failure"

RiskDone == call.pc = "done" /\ call.op = "_calculate_spof_risk"

SpofIds == {call.spofs[i].id : i \in DOMAIN call.spofs}

\* a redundant_with row at either end of a, a self-loop included
HasRedundantWithRow(a) ==
    \E r \in relationships :
        /\ r.relationship_type = "redundant_with"
        /\ r.source_asset_id = a \/ r.target_asset_id = a

\* a redundant_with row that links a with another asset
HasRedundantPartner(a) ==
    \E r \in relationships :
        /\ r.relationship_type = "redundant_with"
        /\ \/ r.source_asset_id = a /\ r.target_asset_id # a
           \/ r.target_asset_id = a /\ r.source_asset_id # a

\* a backs_up row that targets a
HasBackup(a) ==
    \E r \in relationships : r.relationship_type = "backs_up" /\ r.target_asset_id = a

\* the levels at or above a threshold; an unrecognized threshold counts as high
LevelsAtOrAbove(threshold) ==
    CASE threshold = "critical" -> {"critical"}
      [] threshold = "medium" -> {"critical", "high", "medium"}
      [] threshold = "low" -> {"critical", "high", "medium", "low"}
      [] OTHER -> {"critical", "high"}

Candidate(a) == assets[a].criticality \in LevelsAtOrAbove(call.criticality_threshold)

\* the assets that depend on a through at most three depends_on rows
DependentsOf(a) == Reachable(a, DependsOnEdges, 3)

DownstreamCount(a) == Cardinality({r \in relationships : r.source_asset_id = a})

BaseScore(criticality) ==
    CASE criticality = "critical" -> 100
      [] criticality = "high" -> 75
      [] criticality = "medium" -> 50
      [] OTHER -> 25

Min(a, b) == IF a <= b THEN a ELSE b

Score(criticality, dependents, critical, downstream) ==
    Min(200, BaseScore(criticality) + 10 * dependents + 25 * critical + 5 * downstream)

Level(score) ==
    CASE score >= 150 -> "critical"
      [] score >= 100 /\ score < 150 -> "high"
      [] score >= 50 /\ score < 100 -> "medium"
      [] OTHER -> "low"

InSpofExample == assets = SpofExampleAssets /\ relationships = SpofExampleRelationships

\* C10: risk_score = min(200, base + 10 * dependent_count + 25 *
\* critical_dependents + 5 * downstream_count) with base 100 / 75 / 50 / 25
\* (25 for low or absent), and risk_level is critical from 150, high from 100,
\* medium from 50, low below; a critical asset with 2 dependents (1 critical)
\* and 3 outgoing rows scores 160
C10_RiskScoreFormula ==
    /\ SpofDone =>
          \A i \in DOMAIN call.spofs :
              LET e == call.spofs[i]
              IN  /\ e.risk_score = Score(e.criticality, e.dependent_count,
                                          e.critical_dependents, e.downstream_count)
                  /\ e.risk_level = Level(e.risk_score)
    /\ RiskDone =>
          /\ call.risk_score = Score(call.asset_criticality, call.dependent_count,
                                     call.critical_dependents, call.downstream_count)
          /\ call.risk_level = Level(call.risk_score)
          /\ (/\ call.asset_criticality = "critical" /\ call.dependent_count = 2
              /\ call.critical_dependents = 1 /\ call.downstream_count = 3)
                => call.risk_score = 160 /\ call.risk_level = "critical"
    /\ (SpofDone /\ InSpofExample) =>
          \E i \in DOMAIN call.spofs :
              /\ call.spofs[i].id = "A"
              /\ call.spofs[i].dependent_count = 2
              /\ call.spofs[i].critical_dependents = 1
              /\ call.spofs[i].downstream_count = 3
              /\ call.spofs[i].risk_score = 160
              /\ call.spofs[i].risk_level = "critical"

\* C10's case: the weighted sum of an application exceeds 200 and the score
\* returned is 200
C10_Witness ==
    /\ RiskDone
    /\ call.asset_criticality = "critical"
    /\ 100 + 10 * call.dependent_count + 25 * call.critical_dependents
           + 5 * call.downstream_count > 200
    /\ call.risk_score = 200

\* C11: the list find_single_points_of_failure returns is in descending
\* order of risk_score: no entry scores higher than one that precedes it
C11_SortedByRiskScoreDescending ==
    SpofDone =>
        \A i, j \in DOMAIN call.spofs :
            i < j => call.spofs[i].risk_score >= call.spofs[j].risk_score

\* C11's case: three entries were returned and their scores are not all equal
C11_Witness ==
    /\ SpofDone
    /\ Len(call.spofs) = 3
    /\ call.spofs[1].risk_score > call.spofs[3].risk_score

\* C12: every returned asset has a criticality at or above the threshold in
\* the order critical > high > medium > low, an asset with no criticality is
\* never returned, and a threshold outside the four levels gives exactly the
\* results of the threshold high
C12_AtOrAboveThreshold ==
    /\ SpofDone =>
          \A i \in DOMAIN call.spofs :
              LET e == call.spofs[i]
              IN  /\ e.criticality = assets[e.id].criticality
                  /\ e.criticality # None
                  /\ e.criticality \in LevelsAtOrAbove(call.criticality_threshold)
    /\ (SpofDone /\ call.criticality_threshold \notin {"critical", "high", "medium", "low"}) =>
          call.spofs \in find_single_points_of_failure("high")
    /\ (SpofDone /\ call.criticality_threshold = "high") =>
          \A t \in Thresholds \ {"critical", "high", "medium", "low"} :
              call.spofs \in find_single_points_of_failure(t)

\* C12's case: under an unrecognized threshold a high asset is returned while
\* a medium asset and an asset with no criticality, both with a dependent and
\* no redundancy, are not
C12_Witness ==
    /\ SpofDone
    /\ call.criticality_threshold = "urgent"
    /\ \E i \in DOMAIN call.spofs : call.spofs[i].criticality = "high"
    /\ \E a \in DOMAIN assets :
          /\ assets[a].criticality \in {"medium", None}
          /\ DependentsOf(a) # {}
          /\ ~HasRedundantPartner(a) /\ ~HasBackup(a)
          /\ a \notin SpofIds

----------------------------------------------------------------------------
(* Redundancy *)

RedundancyDone == call.pc = "done" /\ call.op = "check_redundancy"

\* C13: a redundant_with row between two assets, stored in either direction,
\* makes check_redundancy of each list the other in redundant_assets and
\* report has_redundancy = TRUE
C13_RedundantWithSymmetric ==
    RedundancyDone =>
        \A b \in DOMAIN assets :
            /\ b # call.asset_id
            /\ \/ Rel(call.asset_id, b, "redundant_with") \in relationships
               \/ Rel(b, call.asset_id, "redundant_with") \in relationships
            => /\ b \in Range(call.redundant_assets)
               /\ call.has_redundancy

\* C13's case: the row is stored from b to the asset only, and the call on
\* the asset lists b
C13_Witness ==
    /\ RedundancyDone
    /\ \E b \in DOMAIN assets :
          /\ b # call.asset_id
          /\ Rel(b, call.asset_id, "redundant_with") \in relationships
          /\ Rel(call.asset_id, b, "redundant_with") \notin relationships
          /\ b \in Range(call.redundant_assets)
          /\ call.has_redundancy

\* C14: has_redundancy is TRUE iff redundant_assets or backup_assets is
\* non-empty; backup_assets are exactly the sources of the backs_up rows that
\* target the asset; a backs_up row that leaves the asset, and rows between
\* other assets, never make it redundant
C14_HasRedundancyIffListed ==
    RedundancyDone =>
        /\ call.has_redundancy <=>
              (call.redundant_assets # <<>> \/ call.backup_assets # <<>>)
        /\ Range(call.backup_assets) =
              {r.source_asset_id :
                  r \in {x \in relationships :
                            x.relationship_type = "backs_up"
                            /\ x.target_asset_id = call.asset_id}}
        /\ Len(call.backup_assets) = Cardinality(Range(call.backup_assets))
        /\ call.has_redundancy <=>
              (HasRedundantPartner(call.asset_id) \/ HasBackup(call.asset_id))

\* C14's case: the asset backs up another asset, and that asset is redundant
\* with a third, yet the asset itself has no redundancy
C14_Witness ==
    /\ RedundancyDone
    /\ ~call.has_redundancy
    /\ \E b, c \in DOMAIN assets :
          /\ b # call.asset_id /\ c # call.asset_id /\ b # c
          /\ Rel(call.asset_id, b, "backs_up") \in relationships
          /\ \/ Rel(b, c, "redundant_with") \in relationships
             \/ Rel(c, b, "backs_up") \in relationships

----------------------------------------------------------------------------
(* Impact analysis *)

ImpactDone == call.pc = "done" /\ call.op = "analyze_impact"

\* a report came back, not an error
ImpactReported == ImpactDone /\ "error" \notin DOMAIN call

DirectIds == {call.directly_affected[i].id : i \in DOMAIN call.directly_affected}

CascadeIds == {call.cascade_effects[i].id : i \in DOMAIN call.cascade_effects}

\* C15: analyze_impact on an id that is not in the store returns the
\* not-found error and none of the report's fields, having run nothing but
\* the asset lookup; on an id of the store it returns a report and no error
C15_UnknownAssetNotFound ==
    ImpactDone =>
        /\ call.asset_id \notin DOMAIN assets =>
              /\ DOMAIN call = {"op", "pc", "asset_id", "error", "ran"}
              /\ call.error = <<"Asset not found", call.asset_id>>
              /\ call.ran = <<"fetch_asset">>
        /\ call.asset_id \in DOMAIN assets =>
              /\ "error" \notin DOMAIN call
              /\ {"directly_affected", "cascade_effects", "criticality_summary",
                  "recommendations"} \subseteq DOMAIN call

\* C15's case: the store has assets and rows, and the call on the unknown id
\* returned the error
C15_Witness ==
    /\ ImpactDone
    /\ call.asset_id = UnknownId
    /\ "error" \in DOMAIN call
    /\ Cardinality(relationships) = MaxRels

\* C16 as stated: directly_affected is the set of assets the forward
\* traversal with no type filter reports at depth 1: each appears once and
\* the root never appears, also with several rows to one target or a self-loop
C16_DirectlyAffectedIsDepthOne ==
    ImpactReported =>
        /\ DirectIds = Reachable(call.asset_id, ForwardEdges({}), 1)
        /\ \A d \in traverse_downstream(call.asset_id, {}, 1) :
              DirectIds = {d.assets[i].id : i \in DOMAIN d.assets}
        /\ call.asset_id \notin DirectIds
        /\ \A i, j \in DOMAIN call.directly_affected :
              i # j => call.directly_affected[i].id # call.directly_affected[j].id

\* C17: criticality_summary and total_affected count the entries of
\* directly_affected and of cascade_effects with no deduplication, an asset
\* in both lists twice; affected_process_areas names each process area of
\* the root, the directly affected and the cascade assets once
C17_CountsNotDeduplicatedAreasDeduplicated ==
    ImpactReported =>
        /\ call.total_affected = call.directly_affected_count + call.cascade_count
        /\ call.directly_affected_count = Len(call.directly_affected)
        /\ call.cascade_count = Len(call.cascade_effects)
        /\ \A level \in {"critical", "high", "medium", "low"} :
              call.criticality_summary[level] =
                  Cardinality({i \in DOMAIN call.directly_affected :
                                  call.directly_affected[i].criticality = level})
                  + Cardinality({i \in DOMAIN call.cascade_effects :
                                    call.cascade_effects[i].criticality = level})
        /\ Range(call.affected_process_areas) =
              {process_areas[assets[a].process_area_id].name :
                  a \in {x \in {call.asset_id} \cup DirectIds \cup CascadeIds :
                            assets[x].process_area_id # None}}
        /\ Len(call.affected_process_areas) = Cardinality(Range(call.affected_process_areas))

\* C17's case: an asset is both directly affected and a cascade asset and is
\* counted twice, while the affected assets, more than one, lie in areas of
\* one name that is listed once
C17_Witness ==
    /\ ImpactReported
    /\ \E b \in DirectIds \cap CascadeIds :
          /\ assets[b].criticality = "critical"
          /\ call.criticality_summary["critical"] >
                Cardinality({a \in DirectIds \cup CascadeIds :
                                assets[a].criticality = "critical"})
    /\ call.total_affected > Cardinality(DirectIds \cup CascadeIds)
    /\ Len(call.affected_process_areas) = 1
    /\ Cardinality({assets[a].process_area_id :
                       a \in {call.asset_id} \cup DirectIds \cup CascadeIds} \ {None}) > 1

\* the assets a failure of the root touches: the root, the targets of its
\* rows, and its dependents within five depends_on rows
AffectedOf(root) ==
    {root} \cup {r.target_asset_id : r \in {x \in relationships : x.source_asset_id = root}}
           \cup Reachable(root, DependsOnEdges, 5)

\* C18: safety_implications is TRUE iff the root, a directly affected asset
\* or a cascade asset is the source of a safety_interlock_for row; being the
\* target of such a row does not set it
C18_SafetyIffAffectedSource ==
    ImpactReported =>
        (call.safety_implications <=>
            \E r \in relationships :
                /\ r.relationship_type = "safety_interlock_for"
                /\ r.source_asset_id \in AffectedOf(call.asset_id))

\* C18's case: the root is the source of no safety_interlock_for row, a
\* cascade asset that is not directly affected is, and the flag is set
C18_Witness ==
    /\ ImpactReported
    /\ call.safety_implications
    /\ \A r \in relationships :
          r.relationship_type = "safety_interlock_for" =>
              /\ r.source_asset_id \in CascadeIds \ DirectIds
              /\ r.source_asset_id # call.asset_id

\* a result with the echoed failure_type replaced
WithFailureType(result, failure_type) ==
    IF "error" \in DOMAIN result THEN result
    ELSE [result EXCEPT !.failure_type = failure_type]

\* C19: failure_type changes nothing but its echo: on every store and for
\* every asset id, the results a call can return for one failure type are,
\* with failure_type replaced, exactly the results it can return for any
\* other, and a returned report echoes a failure type that was passed
C19_FailureTypeNoOp ==
    /\ call.pc = "idle" =>
          \A asset_id \in Roots, other \in FailureTypes \ {"complete"} :
              {WithFailureType(r, other) : r \in analyze_impact(asset_id, "complete")}
                  = analyze_impact(asset_id, other)
    /\ ImpactReported => call.failure_type \in FailureTypes

\* C19's case: a report with directly affected and cascade assets came back
\* for a failure type that is none of the documented three
C19_Witness ==
    /\ ImpactReported
    /\ call.failure_type \notin {"complete", "degraded", "intermittent"}
    /\ call.directly_affected # <<>>
    /\ call.cascade_effects # <<>>
    /\ call.recommendations # <<>>

----------------------------------------------------------------------------
(* Critical path *)

PathDone == call.pc = "done" /\ call.op = "get_critical_path"

\* every relationship as an edge in both directions
UndirectedEdges == ForwardEdges({}) \cup BackwardEdges({})

\* the ids within any number of undirected edges of root
Connected(root) == Within(root, UndirectedEdges, Cardinality(DOMAIN assets))

PathIds == [i \in DOMAIN call.path |-> call.path[i].id]

\* the returned path leads from s to t along relationships and is shortest
PathIsShortest ==
    /\ PathIds # <<>>
    /\ PathIds[1] = call.source_asset_id
    /\ PathIds[Len(PathIds)] = call.target_asset_id
    /\ Len(PathIds) = call.path_length
    /\ \A i \in 1 .. Len(PathIds) - 1 :
          <<PathIds[i], PathIds[i + 1]>> \in UndirectedEdges
    /\ call.path_length - 1 =
          Distance(call.source_asset_id, UndirectedEdges, call.target_asset_id)

\* the call names one id twice and the id is not in the store
SameUnknownId ==
    call.source_asset_id = call.target_asset_id /\ call.source_asset_id \notin DOMAIN assets

\* C20: get_critical_path(s, t) returns found = TRUE iff t is reachable from
\* s over the relationships taken as undirected, FALSE across components; a
\* found path starts at s, ends at t, joins consecutive assets by a
\* relationship in one of the two directions, and has path_length - 1 equal
\* to the undirected distance; every call returns, with no depth limit.
\* (The call that names one unknown id twice is the subject of C21.)
C20_ShortestUndirectedPath ==
    /\ []((PathDone /\ ~SameUnknownId) =>
            /\ call.found <=> call.target_asset_id \in Connected(call.source_asset_id)
            /\ call.found => PathIsShortest)
    /\ (call.pc = "loop") ~> (call.pc = "done")

\* C20's case: a path over four relationships, all followed against their
\* direction, was found between the two ends of the chain
C20_Witness ==
    /\ PathDone
    /\ call.found
    /\ call.path_length = 5
    /\ \A i \in 1 .. Len(call.path) - 1 : call.path[i].relationship_to_next = None

\* C21 as stated: get_critical_path with an unknown source or target id
\* returns a not-found error: never found = TRUE, and not the ordinary no-path
\* result either
C21_UnknownIdIsNotFoundError ==
    (PathDone /\ ~({call.source_asset_id, call.target_asset_id} \subseteq DOMAIN assets)) =>
        /\ "error" \in DOMAIN call
        /\ "message" \notin DOMAIN call
        /\ "found" \in DOMAIN call => ~call.found

\* C30: in a found path an element carries relationship_to_next iff a
\* relationship leads from it to the next element, and the label is the type
\* of such a relationship; a hop travelled against the only relationship's
\* direction is unlabelled, the last element is unlabelled, and the path is
\* found all the same
C30_LabelIffForwardRelationship ==
    (PathDone /\ call.found) =>
        \A i \in DOMAIN call.path :
            LET forward == IF i < Len(call.path)
                           THEN {r \in relationships :
                                    /\ r.source_asset_id = call.path[i].id
                                    /\ r.target_asset_id = call.path[i + 1].id}
                           ELSE {}
            IN  /\ call.path[i].relationship_to_next # None <=> forward # {}
                /\ forward # {} =>
                      \E r \in forward :
                          call.path[i].relationship_to_next = r.relationship_type

\* C30's case: a found path of three assets whose first hop follows a
\* relationship and is labelled and whose second hop runs against the only
\* relationship between the two and is unlabelled
C30_Witness ==
    /\ PathDone
    /\ call.found
    /\ Len(call.path) = 3
    /\ call.path[1].relationship_to_next # None
    /\ call.path[2].relationship_to_next = None
    /\ \E r \in relationships :
          /\ r.source_asset_id = call.path[3].id
          /\ r.target_asset_id = call.path[2].id

----------------------------------------------------------------------------
(* api/index.py: the REST handlers /api/upstream/{asset_id} and             *)
(* /api/downstream/{asset_id}                                              *)

\* "depth > 5" in both handlers
ApiMaxDepth == 5

\* "visited, result, queue = set(), [], [(asset_id, 0)]"
api_init(op, asset_id) ==
    [ op |-> op, root |-> asset_id,
      visited |-> {},
      result |-> <<>>,
      queue |-> << [id |-> asset_id, depth |-> 0] >>,
      pc |-> "loop" ]

\* "FROM relationships r JOIN assets a ON r.source_asset_id = a.id
\*  WHERE r.target_asset_id = ?"
api_upstream_query(current_id) ==
    {r \in relationships : r.target_asset_id = current_id /\ AssetExists(r.source_asset_id)}

\* "FROM relationships r JOIN assets a ON r.target_asset_id = a.id
\*  WHERE r.source_asset_id = ?"
api_downstream_query(current_id) ==
    {r \in relationships : r.source_asset_id = current_id /\ AssetExists(r.target_asset_id)}

\* the joined asset id of a row
api_row_id(op, r) ==
    IF op = "api_upstream" THEN r.source_asset_id ELSE r.target_asset_id

\* "for row in await cursor.fetchall(): if row["id"] not in visited:
\*  result.append({**dict(row), "depth": depth + 1}); queue.append(...)"
api_rows(op, rows, visited, depth) ==
    LET fresh == SelectSeq(rows, LAMBDA r : api_row_id(op, r) \notin visited)
    IN [i \in 1..Len(fresh) |->
            [id |-> api_row_id(op, fresh[i]),
             criticality |-> assets[api_row_id(op, fresh[i])].criticality,
             relationship_type |-> fresh[i].relationship_type,
             depth |-> depth + 1]]

\* one iteration of "while queue:"; rows is what the query returns
api_iter(c, rows) ==
    LET current_id == Head(c.queue).id
        depth == Head(c.queue).depth
        rest == Tail(c.queue)
    IN  IF current_id \in c.visited \/ depth > ApiMaxDepth
        THEN [c EXCEPT !.queue = rest]
        ELSE LET visited == c.visited \cup {current_id}
                 found == api_rows(c.op, rows, visited, depth)
             IN [c EXCEPT !.visited = visited,
                          !.result = @ \o found,
                          !.queue = rest \o [i \in 1..Len(found) |->
                                        [id |-> found[i].id, depth |-> found[i].depth]]]

api_query(c) ==
    IF c.op = "api_upstream" THEN api_upstream_query(Head(c.queue).id)
    ELSE api_downstream_query(Head(c.queue).id)

\* the loop run to its end over the orders the rows can come back in, then
\* "return {"asset_id": asset_id, "upstream": result, "count": len(result)}"
RECURSIVE api_run(_)
api_run(c) ==
    IF c.queue = <<>>
    THEN {[op |-> c.op, pc |-> "done", asset_id |-> c.root,
           listing |-> c.result, count |-> Len(c.result)]}
    ELSE UNION {api_run(api_iter(c, rows)) : rows \in fetchall(api_query(c))}

get_upstream(asset_id) == api_run(api_init("api_upstream", asset_id))

get_downstream(asset_id) == api_run(api_init("api_downstream", asset_id))

\* a chain of six relationships: A controls B, ..., F controls G
ApiChainIds == {"A", "B", "C", "D", "E", "F", "G"}
ApiChainRelationships ==
    { Rel("A", "B", "controls"), Rel("B", "C", "controls"), Rel("C", "D", "controls"),
      Rel("D", "E", "controls"), Rel("E", "F", "controls"), Rel("F", "G", "controls") }

InitApiChain ==
    /\ assets = [i \in ApiChainIds |-> [criticality |-> "high"]]
    /\ relationships = ApiChainRelationships
    /\ call = Idle
    /\ review_flags = {}
    /\ writer = Idle

InitApi == InitPair \/ InitChains \/ InitApiChain \/ InitEmpty

ApiGetUpstream ==
    /\ call.pc = "idle"
    /\ \E asset_id \in Roots : call' \in get_upstream(asset_id)
    /\ UNCHANGED <<assets, relationships, review_flags, writer>>

ApiGetDownstream ==
    /\ call.pc = "idle"
    /\ \E asset_id \in Roots : call' \in get_downstream(asset_id)
    /\ UNCHANGED <<assets, relationships, review_flags, writer>>

NextApi == ApiGetUpstream \/ ApiGetDownstream

SpecApi == InitApi /\ [][NextApi]_vars

ApiDone == call.pc = "done" /\ call.op \in {"api_upstream", "api_downstream"}

\* the edges the handler follows, in the direction it follows them
ApiEdges ==
    IF call.op = "api_downstream" THEN ForwardEdges({}) ELSE BackwardEdges({})

\* C26: a REST handler's listing holds the assets the core traversal with
\* max_depth = 5 and no type filter returns, at the same depths: every asset
\* within five edges of the root once, at its shortest distance, never the
\* root, and nothing deeper than 5
C26_ApiListingIsCoreTraversal ==
    ApiDone =>
        /\ \A i, j \in DOMAIN call.listing : i # j => call.listing[i].id # call.listing[j].id
        /\ \A i \in DOMAIN call.listing :
              /\ call.listing[i].id # call.asset_id
              /\ call.listing[i].depth <= ApiMaxDepth
        /\ {<<call.listing[i].id, call.listing[i].depth>> : i \in DOMAIN call.listing}
              = {<<v, Distance(call.asset_id, ApiEdges, v)>> :
                    v \in Reachable(call.asset_id, ApiEdges, DefaultMaxDepth)}

\* what of C26 the handlers do keep: the root is never listed, an entry's
\* depth is in 1..6, and the listed ids are those within six edges
ApiListingBounds ==
    ApiDone =>
        /\ \A i \in DOMAIN call.listing :
              /\ call.listing[i].id # call.asset_id
              /\ call.listing[i].depth \in 1..(ApiMaxDepth + 1)
        /\ {call.listing[i].id : i \in DOMAIN call.listing}
              = Reachable(call.asset_id, ApiEdges, ApiMaxDepth + 1)

\* a listing with the same asset twice
ApiListsTwice ==
    /\ ApiDone
    /\ \E i, j \in DOMAIN call.listing : i # j /\ call.listing[i].id = call.listing[j].id

\* a listing with an entry at depth 6
ApiListsDepthSix ==
    /\ ApiDone
    /\ \E i \in DOMAIN call.listing : call.listing[i].depth = ApiMaxDepth + 1

----------------------------------------------------------------------------
(* tools/review.py: suggest_relationship, flag_for_review, resolve_flag.    *)
(* All callers share the one connection of db/connection.py, so a row one  *)
(* caller has inserted is seen by every later query of any caller; every   *)
(* "await" is a point where another caller's step can run.                 *)

\* a NULL id column
NoId == <<"None", 0>>

\* "str(uuid.uuid4())": an id no row holds; the n-th id issued
uuid4 == <<"uuid", Cardinality(relationships) + Cardinality(review_flags) + 1>>

\* a row of the relationships table with its id and its verified column
StoredRel(id, s, t, ty, inferred, verified) ==
    [id |-> id, source_asset_id |-> s, target_asset_id |-> t,
     relationship_type |-> ty, inferred |-> inferred, verified |-> verified]

\* a row of the review_flags table; status has "DEFAULT 'open'"
Flag(id, asset_id, relationship_id, flag_type) ==
    [id |-> id, asset_id |-> asset_id, relationship_id |-> relationship_id,
     flag_type |-> flag_type, status |-> "open"]

\* "CHECK (status IN ('open', 'in_review', 'resolved', 'dismissed'))"
flag_statuses == {"open", "in_review", "resolved", "dismissed"}

\* the caller's position at entry of suggest_relationship
suggest_init(source_asset_id, target_asset_id, relationship_type) ==
    [ op |-> "suggest_relationship", pc |-> "fetch_source",
      source_asset_id |-> source_asset_id,
      target_asset_id |-> target_asset_id,
      relationship_type |-> relationship_type,
      status |-> "None", error |-> "None",
      relationship_id |-> NoId, flag_id |-> NoId ]

\* "SELECT id FROM relationships WHERE source_asset_id = ? AND
\*  target_asset_id = ? AND relationship_type = ?"
existing_query(p) ==
    {r \in relationships : /\ r.source_asset_id = p.source_asset_id
                           /\ r.target_asset_id = p.target_asset_id
                           /\ r.relationship_type = p.relationship_type}

\* one step of suggest_relationship, from one await to the next: the
\* outcomes [p, relationships, review_flags] it can have
suggest_step(p) ==
    CASE p.pc = "fetch_source" ->
            {[ p |-> IF AssetExists(p.source_asset_id)
                     THEN [p EXCEPT !.pc = "fetch_target"]
                     ELSE [p EXCEPT !.pc = "done", !.error = "Source asset not found"],
               relationships |-> relationships, review_flags |-> review_flags ]}
      [] p.pc = "fetch_target" ->
            {[ p |-> IF AssetExists(p.target_asset_id)
                     THEN [p EXCEPT !.pc = "fetch_existing"]
                     ELSE [p EXCEPT !.pc = "done", !.error = "Target asset not found"],
               relationships |-> relationships, review_flags |-> review_flags ]}
      [] p.pc = "fetch_existing" ->
            IF existing_query(p) # {}
            THEN {[ p |-> [p EXCEPT !.pc = "done", !.status = "already_exists",
                                    !.relationship_id = existing.id],
                    relationships |-> relationships, review_flags |-> review_flags ] :
                        existing \in existing_query(p)}
            ELSE {[ p |-> [p EXCEPT !.pc = "insert_relationship"],
                    relationships |-> relationships, review_flags |-> review_flags ]}
      [] p.pc = "insert_relationship" ->
            {[ p |-> [p EXCEPT !.pc = "insert_flag", !.relationship_id = uuid4],
               relationships |-> relationships \cup
                    {StoredRel(uuid4, p.source_asset_id, p.target_asset_id,
                               p.relationship_type, 1, 0)},
               review_flags |-> review_flags ]}
      [] p.pc = "insert_flag" ->
            {[ p |-> [p EXCEPT !.pc = "commit", !.flag_id = uuid4],
               relationships |-> relationships,
               review_flags |-> review_flags \cup
                    {Flag(uuid4, "None", p.relationship_id, "suggested_relationship")} ]}
      [] p.pc = "commit" ->
            {[ p |-> [p EXCEPT !.pc = "done", !.status = "suggested"],
               relationships |-> relationships, review_flags |-> review_flags ]}

\* flag types flag_for_review accepts
valid_flag_types ==
    {"missing_data", "needs_verification", "potential_issue",
     "suggested_relationship", "compliance_gap", "ownership_unknown"}

\* flag_for_review: the result and the review_flags table it leaves
flag_for_review(asset_id, flag_type) ==
    IF ~AssetExists(asset_id)
    THEN [ p |-> [op |-> "flag_for_review", pc |-> "done", status |-> "None",
                  error |-> "Asset not found", flag_id |-> NoId],
           review_flags |-> review_flags ]
    ELSE IF flag_type \notin valid_flag_types
    THEN [ p |-> [op |-> "flag_for_review", pc |-> "done", status |-> "None",
                  error |-> "Invalid flag type", flag_id |-> NoId],
           review_flags |-> review_flags ]
    ELSE [ p |-> [op |-> "flag_for_review", pc |-> "done", status |-> "flagged",
                  error |-> "None", flag_id |-> uuid4],
           review_flags |-> review_flags \cup {Flag(uuid4, asset_id, NoId, flag_type)} ]

\* "UPDATE review_flags SET status = ? ... WHERE id = ?"
update_flag_status(flag_id, resolution) ==
    {IF f.id = flag_id THEN [f EXCEPT !.status = resolution] ELSE f : f \in review_flags}

\* "UPDATE relationships SET verified = 1 ... WHERE id = ?"
update_verified(relationship_id) ==
    {IF r.id = relationship_id THEN [r EXCEPT !.verified = 1] ELSE r : r \in relationships}

\* resolve_flag: the result and the tables it leaves.  A resolution that the
\* CHECK constraint of review_flags.status rejects makes the UPDATE raise,
\* and the call ends with neither table changed.
resolve_flag(flag_id, resolution) ==
    LET found == {f \in review_flags : f.id = flag_id}
        flag == CHOOSE f \in found : TRUE
        result(status, error) ==
            [op |-> "resolve_flag", pc |-> "done", flag_id |-> flag_id,
             resolution |-> resolution, status |-> status, error |-> error]
    IN  IF found = {}
        THEN [ p |-> result("None", "Flag not found"),
               relationships |-> relationships, review_flags |-> review_flags ]
        ELSE IF flag.status # "open" /\ flag.status # "in_review"
        THEN [ p |-> result("None", "Flag is already"),
               relationships |-> relationships, review_flags |-> review_flags ]
        ELSE IF resolution \notin flag_statuses
        THEN [ p |-> result("None", "IntegrityError"),
               relationships |-> relationships, review_flags |-> review_flags ]
        ELSE [ p |-> result("success", "None"),
               relationships |->
                    IF /\ flag.flag_type = "suggested_relationship"
                       /\ resolution = "resolved"
                       /\ flag.relationship_id # NoId
                    THEN update_verified(flag.relationship_id)
                    ELSE relationships,
               review_flags |-> update_flag_status(flag_id, resolution) ]

----------------------------------------------------------------------------
(* The review specification: two callers on the shared connection.  call   *)
(* runs suggest_relationship step by step, flag_for_review and             *)
(* resolve_flag; writer runs suggest_relationship step by step.            *)

\* rows of the relationships table after which no further call is started
MaxStoreRows == 2

\* rows of the review_flags table after which no further call is started
MaxFlags == 2

SuggestSources == {"A", UnknownId}
SuggestTargets == {"B", UnknownId}
SuggestTypes == {"depends_on"}
FlagTypes == {"suggested_relationship", "needs_verification", "unknown_type"}
Resolutions == {"resolved", "dismissed", "in_review", "wontfix"}

\* ids a caller can name: the flags of the table and one unknown id
FlagIds == {f.id : f \in review_flags} \cup {NoId}

Returned(p) == p.pc \in {"idle", "done"}

StoreHasRoom ==
    Cardinality(relationships) < MaxStoreRows /\ Cardinality(review_flags) < MaxFlags

InitReview ==
    /\ assets = [i \in PairIds |-> [criticality |-> "high"]]
    /\ relationships \in
          { {}, {StoredRel(<<"seed", 1>>, "A", "B", "depends_on", 0, 1)} }
    /\ review_flags = {}
    /\ call = Idle
    /\ writer = Idle

StartSuggestRelationship ==
    /\ Returned(call)
    /\ StoreHasRoom
    /\ \E s \in SuggestSources, t \in SuggestTargets, ty \in SuggestTypes :
          call' = suggest_init(s, t, ty)
    /\ UNCHANGED <<assets, relationships, review_flags, writer>>

SuggestRelationshipStep ==
    /\ call.op = "suggest_relationship"
    /\ ~Returned(call)
    /\ \E o \in suggest_step(call) :
          /\ call' = o.p
          /\ relationships' = o.relationships
          /\ review_flags' = o.review_flags
    /\ UNCHANGED <<assets, writer>>

WriterStartSuggestRelationship ==
    /\ Returned(writer)
    /\ StoreHasRoom
    /\ \E s \in SuggestSources, t \in SuggestTargets, ty \in SuggestTypes :
          writer' = suggest_init(s, t, ty)
    /\ UNCHANGED <<assets, relationships, review_flags, call>>

WriterSuggestRelationshipStep ==
    /\ writer.op = "suggest_relationship"
    /\ ~Returned(writer)
    /\ \E o \in suggest_step(writer) :
          /\ writer' = o.p
          /\ relationships' = o.relationships
          /\ review_flags' = o.review_flags
    /\ UNCHANGED <<assets, call>>

FlagForReview ==
    /\ Returned(call)
    /\ StoreHasRoom
    /\ \E asset_id \in SuggestSources, flag_type \in FlagTypes :
          LET o == flag_for_review(asset_id, flag_type)
          IN /\ call' = o.p
             /\ review_flags' = o.review_flags
    /\ UNCHANGED <<assets, relationships, writer>>

ResolveFlag ==
    /\ Returned(call)
    /\ \E flag_id \in FlagIds, resolution \in Resolutions :
          LET o == resolve_flag(flag_id, resolution)
          IN /\ call' = o.p
             /\ relationships' = o.relationships
             /\ review_flags' = o.review_flags
    /\ UNCHANGED <<assets, writer>>

NextReview ==
    \/ StartSuggestRelationship
    \/ SuggestRelationshipStep
    \/ WriterStartSuggestRelationship
    \/ WriterSuggestRelationshipStep
    \/ FlagForReview
    \/ ResolveFlag

SpecReview == InitReview /\ [][NextReview]_vars

----------------------------------------------------------------------------
(* The read-only specification: a store with review flags, and any         *)
(* sequence of calls of the seven traversal and scoring operations; a      *)
(* returned call hands its result to the caller and the next call starts.  *)

\* a review flag raised before the calls
SeededFlags == {Flag(<<"seed", 1>>, "A", NoId, "needs_verification")}

InitReadOnly ==
    /\ assets \in {[i \in PairIds |-> t[i]] : t \in ImpactAssets}
    /\ relationships \in
          TablesOver(RowsOver(PairIds, {"depends_on", "redundant_with"}), MaxRels)
    /\ review_flags \in {{}, SeededFlags}
    /\ call = Idle
    /\ writer = Idle

\* the caller has the result; nothing of the call is kept
ReturnResult ==
    /\ call.pc = "done"
    /\ call' = Idle
    /\ UNCHANGED <<assets, relationships, review_flags, writer>>

NextReadOnly ==
    \/ TraverseUpstream
    \/ TraverseDownstream
    \/ FindDependents
    \/ CheckRedundancyCall
    \/ FindSinglePointsOfFailure
    \/ AnalyzeImpact
    \/ StartGetCriticalPath
    \/ PathStep
    \/ PathReturn
    \/ ReturnResult

SpecReadOnly == InitReadOnly /\ [][NextReadOnly]_vars

\* C23: traverse_upstream, traverse_downstream, find_dependents,
\* check_redundancy, find_single_points_of_failure, analyze_impact and
\* get_critical_path are read-only: no step of any sequence of such calls
\* changes the assets, the relationships or the review flags, and between
\* two calls nothing of the earlier call is left
C23_ReadOnly ==
    [][ /\ UNCHANGED <<assets, relationships, review_flags>>
        /\ call'.pc = "idle" => call' = Idle ]_vars

\* a scoring call has returned on a store that holds relationships and a
\* review flag, for an asset with no redundancy
C23_Witness ==
    /\ call.pc = "done"
    /\ call.op = "check_redundancy"
    /\ ~call.has_redundancy
    /\ AssetExists(call.asset_id)
    /\ relationships # {}
    /\ review_flags # {}

----------------------------------------------------------------------------
(* The concurrent specification: call runs a traversal, one store query    *)
(* per step, while writer runs suggest_relationship on the same            *)
(* connection.  A traversal opens no transaction (utils/graph.py issues    *)
(* plain SELECTs), so each of its queries reads the table as it is then.   *)

\* suggest_relationship calls the second caller makes
MaxInserts == 2

\* the (source, target) pairs of the seeded and the suggested rows
ConcurrentPairs == {<<"A", "B">>, <<"A", "C">>, <<"B", "C">>, <<"C", "A">>}

ConcurrentRoots == {"A", "C", UnknownId}

ConcurrentDepths == {1, DefaultMaxDepth}

\* the tables seeded before the calls: no row, or one verified row
SeededTables ==
    {{}} \cup {{StoredRel(<<"seed", 1>>, e[1], e[2], "depends_on", 0, 1)} : e \in ConcurrentPairs}

InitConcurrent ==
    /\ assets = [i \in StoreIds |-> [criticality |-> "high"]]
    /\ relationships \in SeededTables
    /\ review_flags = {}
    /\ call = Idle
    /\ writer = Idle

\* the loop state at entry, with the table the call started on noted beside
\* it; no statement of the code reads started_on
Started(c) ==
    [f \in DOMAIN c \cup {"started_on"} |->
        IF f = "started_on" THEN relationships ELSE c[f]]

ConcurrentStartTraverseUpstream ==
    /\ call.pc = "idle"
    /\ \E asset_id \in ConcurrentRoots, max_depth \in ConcurrentDepths :
          call' = Started(LoopInit("traverse_upstream", asset_id, {}, max_depth))
    /\ UNCHANGED <<assets, relationships, review_flags, writer>>

ConcurrentStartTraverseDownstream ==
    /\ call.pc = "idle"
    /\ \E asset_id \in ConcurrentRoots, max_depth \in ConcurrentDepths :
          call' = Started(LoopInit("traverse_downstream", asset_id, {}, max_depth))
    /\ UNCHANGED <<assets, relationships, review_flags, writer>>

ConcurrentStartFindDependents ==
    /\ call.pc = "idle"
    /\ \E asset_id \in ConcurrentRoots, max_depth \in ConcurrentDepths :
          call' = Started(LoopInit("find_dependents", asset_id, {}, max_depth))
    /\ UNCHANGED <<assets, relationships, review_flags, writer>>

WriterStartInsert ==
    /\ Returned(writer)
    /\ Cardinality(review_flags) < MaxInserts
    /\ \E e \in ConcurrentPairs : writer' = suggest_init(e[1], e[2], "depends_on")
    /\ UNCHANGED <<assets, relationships, review_flags, call>>

NextConcurrent ==
    \/ ConcurrentStartTraverseUpstream
    \/ ConcurrentStartTraverseDownstream
    \/ ConcurrentStartFindDependents
    \/ LoopStep
    \/ LoopReturn
    \/ WriterStartInsert
    \/ WriterSuggestRelationshipStep

SpecConcurrent == InitConcurrent /\ [][NextConcurrent]_vars

----------------------------------------------------------------------------
(* The interleaved specification: call runs any of the six looping         *)
(* operations while writer runs suggest_relationship.  The traversals and  *)
(* get_critical_path take one store query per step.                        *)
(* find_single_points_of_failure takes one candidate of its fetched list   *)
(* per step, analyze_impact one of its stages per step; the find_dependents *)
(* call inside a step is the loop stepped by LoopStep.  The event loop     *)
(* resumes a caller whenever its statement has returned, so a call that can *)
(* take a step eventually takes it.                                        *)

\* "rows = await cursor.fetchall()": the candidates, fetched once
spof_init(criticality_threshold, rows) ==
    [ op |-> "find_single_points_of_failure", pc |-> "rows",
      criticality_threshold |-> criticality_threshold,
      rows |-> rows,
      spofs |-> <<>> ]

\* the loop body trying a candidate again until it yields an entry
spof_iter_retry(c) ==
    {IF entry = <<>> THEN c ELSE [c EXCEPT !.rows = Tail(@), !.spofs = @ \o entry] :
        entry \in SpofRow(Head(c.rows))}

\* "for row in rows:" one candidate, against the tables as they are now
spof_iter(c) ==
    {[c EXCEPT !.rows = Tail(@), !.spofs = @ \o entry] : entry \in SpofRow(Head(c.rows))}

\* "spofs.sort(...)" and the return
spof_return(c) ==
    [ op |-> "find_single_points_of_failure", pc |-> "done",
      criticality_threshold |-> c.criticality_threshold,
      spofs |-> sort_by_risk_score(c.spofs) ]

\* the caller's position at entry of analyze_impact
impact_init(asset_id, failure_type) ==
    [ op |-> "analyze_impact", pc |-> "fetch_asset",
      asset_id |-> asset_id, failure_type |-> failure_type,
      rows |-> <<>>, dependents |-> <<>> ]

\* one stage of analyze_impact, against the tables as they are now: the asset
\* lookup, the directly-affected query, the find_dependents call, and the
\* process area, safety and redundancy queries with the return
impact_stage(c) ==
    CASE c.pc = "fetch_asset" ->
            IF AssetExists(c.asset_id)
            THEN {[c EXCEPT !.pc = "directly_affected"]}
            ELSE {impact_not_found(c.asset_id)}
      [] c.pc = "directly_affected" ->
            {[c EXCEPT !.pc = "find_dependents", !.rows = rows] :
                rows \in fetchall(directly_affected_query(c.asset_id))}
      [] c.pc = "find_dependents" ->
            {[c EXCEPT !.pc = "report", !.dependents = dependents] :
                dependents \in find_dependents(c.asset_id, ImpactMaxDepth)}
      [] c.pc = "report" ->
            {impact_report(c.asset_id, c.failure_type, c.rows, c.dependents,
                           redundancy, area_list) :
                redundancy \in CheckRedundancy(c.asset_id),
                area_list \in fetchall(process_areas_query(
                                affected_ids_of(c.asset_id, directly_affected_list(c.rows),
                                                cascade_effects_list(c.dependents))))}

\* the asset table of the interleaved stores
InterleavedAssets ==
    [A |-> [criticality |-> "critical", process_area_id |-> "PA1"],
     B |-> [criticality |-> "high", process_area_id |-> "PA2"],
     C |-> [criticality |-> "critical", process_area_id |-> "PA3"]]

\* the interleaved stores start with no row, or with A depends_on B
InitInterleaved ==
    /\ assets = InterleavedAssets
    /\ relationships \in {{}, {StoredRel(<<"seed", 1>>, "A", "B", "depends_on", 0, 1)}}
    /\ review_flags = {}
    /\ call = Idle
    /\ writer = Idle

InterleavedStartTraversal ==
    /\ call.pc = "idle"
    /\ \E op \in {"traverse_upstream", "traverse_downstream", "find_dependents"},
          asset_id \in ConcurrentRoots :
          call' = Started(LoopInit(op, asset_id, {}, DefaultMaxDepth))
    /\ UNCHANGED <<assets, relationships, review_flags, writer>>

InterleavedStartGetCriticalPath ==
    /\ call.pc = "idle"
    /\ \E source_asset_id \in ConcurrentRoots, target_asset_id \in ConcurrentRoots :
          call' = path_init(source_asset_id, target_asset_id)
    /\ UNCHANGED <<assets, relationships, review_flags, writer>>

TraversalOps == {"traverse_upstream", "traverse_downstream", "find_dependents"}

InterleavedLoopStep == call.op \in TraversalOps /\ LoopStep

InterleavedLoopReturn == call.op \in TraversalOps /\ LoopReturn

InterleavedPathStep == call.op = "get_critical_path" /\ PathStep

InterleavedPathReturn == call.op = "get_critical_path" /\ PathReturn

SpofStart ==
    /\ call.pc = "idle"
    /\ \E criticality_threshold \in {"critical", "high"} :
          \E rows \in fetchall(candidates_query(criticality_threshold)) :
              call' = spof_init(criticality_threshold, rows)
    /\ UNCHANGED <<assets, relationships, review_flags, writer>>

SpofStep ==
    /\ call.op = "find_single_points_of_failure"
    /\ call.pc = "rows"
    /\ call.rows # <<>>
    /\ call' \in spof_iter(call)
    /\ UNCHANGED <<assets, relationships, review_flags, writer>>

SpofReturn ==
    /\ call.op = "find_single_points_of_failure"
    /\ call.pc = "rows"
    /\ call.rows = <<>>
    /\ call' = spof_return(call)
    /\ UNCHANGED <<assets, relationships, review_flags, writer>>

ImpactStart ==
    /\ call.pc = "idle"
    /\ \E asset_id \in ConcurrentRoots : call' = impact_init(asset_id, "complete")
    /\ UNCHANGED <<assets, relationships, review_flags, writer>>

ImpactStep ==
    /\ call.op = "analyze_impact"
    /\ call.pc # "done"
    /\ call' \in impact_stage(call)
    /\ UNCHANGED <<assets, relationships, review_flags, writer>>

NextInterleaved ==
    \/ InterleavedStartTraversal
    \/ InterleavedLoopStep
    \/ InterleavedLoopReturn
    \/ InterleavedStartGetCriticalPath
    \/ InterleavedPathStep
    \/ InterleavedPathReturn
    \/ SpofStart
    \/ SpofStep
    \/ SpofReturn
    \/ ImpactStart
    \/ ImpactStep
    \/ WriterStartInsert
    \/ WriterSuggestRelationshipStep

SpecInterleaved ==
    /\ InitInterleaved
    /\ [][NextInterleaved]_vars
    /\ WF_vars(InterleavedLoopStep) /\ WF_vars(InterleavedLoopReturn)
    /\ WF_vars(InterleavedPathStep) /\ WF_vars(InterleavedPathReturn)
    /\ WF_vars(SpofStep) /\ WF_vars(SpofReturn)
    /\ WF_vars(ImpactStep)

----------------------------------------------------------------------------
(* Unknown root ids *)

\* no row of the relationships table names id
Unreferenced(id) ==
    \A r \in relationships : r.source_asset_id # id /\ r.target_asset_id # id

\* C22: a traverse_upstream, traverse_downstream or find_dependents call
\* whose root id is not in the assets table and is named by no relationship
\* returns an empty asset list and an empty depth map, after expanding the
\* root only, and its result carries no error
C22_UnknownRootReturnsEmpty ==
    (/\ call.pc = "done"
     /\ call.op \in {"traverse_upstream", "traverse_downstream", "find_dependents"}
     /\ ~AssetExists(call.root)
     /\ Unreferenced(call.root))
    => /\ call.assets = <<>>
       /\ DOMAIN call.depth_map = {}
       /\ "error" \notin DOMAIN call
       /\ call.max_depth >= 0 => call.expanded = <<call.root>>

\* a call for the unknown id has returned on a store that holds
\* relationships, with the root expanded
C22_Witness ==
    /\ call.pc = "done"
    /\ call.op = "find_dependents"
    /\ call.root = UnknownId
    /\ ~AssetExists(call.root)
    /\ relationships # {}
    /\ call.expanded = <<UnknownId>>
    /\ call.assets = <<>>

----------------------------------------------------------------------------
(* Review operations *)

SameTriple(r1, r2) ==
    /\ r1.source_asset_id = r2.source_asset_id
    /\ r1.target_asset_id = r2.target_asset_id
    /\ r1.relationship_type = r2.relationship_type

\* no two rows of the relationships table hold the same triple
NoDuplicateTriple ==
    \A r1, r2 \in relationships : SameTriple(r1, r2) => r1 = r2

\* the step is caller p's existence query, taken while a row with the
\* suggested triple is in the table
FindsExisting(p) ==
    /\ p.op = "suggest_relationship"
    /\ p.pc = "fetch_existing"
    /\ existing_query(p) # {}

\* C27: suggest_relationship never creates a second relationship with the
\* same (source_asset_id, target_asset_id, relationship_type), also when the
\* calls of two callers interleave at their awaits; a call whose existence
\* query finds the triple returns already_exists with the id of a row holding
\* it and inserts neither a relationship nor a review flag
C27_SuggestNeverDuplicatesTriple ==
    [][ /\ NoDuplicateTriple'
        /\ (FindsExisting(call) /\ call' # call) =>
              /\ call'.pc = "done"
              /\ call'.status = "already_exists"
              /\ call'.relationship_id \in {r.id : r \in existing_query(call)}
              /\ UNCHANGED <<relationships, review_flags>>
        /\ (FindsExisting(writer) /\ writer' # writer) =>
              /\ writer'.pc = "done"
              /\ writer'.status = "already_exists"
              /\ writer'.relationship_id \in {r.id : r \in existing_query(writer)}
              /\ UNCHANGED <<relationships, review_flags>> ]_vars

\* what suggest_relationship keeps when the second caller never calls: no
\* triple is stored twice
NoDuplicateTripleWithoutWriter ==
    writer = Idle => NoDuplicateTriple

\* two callers have both inserted the same triple
DuplicateTripleStored ==
    /\ ~NoDuplicateTriple
    /\ call.op = "suggest_relationship" /\ call.pc = "done" /\ call.status = "suggested"
    /\ writer.op = "suggest_relationship" /\ writer.pc = "done" /\ writer.status = "suggested"

\* the step is a resolve_flag call returning
ResolveFlagReturns ==
    /\ Returned(call)
    /\ call'.op = "resolve_flag"
    /\ call'.pc = "done"
    /\ \E resolution \in Resolutions :
          /\ call' = resolve_flag(call'.flag_id, resolution).p
          /\ relationships' = resolve_flag(call'.flag_id, resolution).relationships
          /\ review_flags' = resolve_flag(call'.flag_id, resolution).review_flags

\* the flag rows with the id the returning call names, before and after
FlagBefore == {f \in review_flags : f.id = call'.flag_id}
FlagAfter == {f \in review_flags' : f.id = call'.flag_id}

ResolveFlagOneWayStep ==
    /\ call'.status = "success" =>
          /\ \E f \in FlagBefore : f.status \in {"open", "in_review"}
          /\ \A f \in FlagAfter : f.status \in {"resolved", "dismissed"}
    /\ (\E f \in FlagBefore : f.status \notin {"open", "in_review"}) =>
          /\ call'.error # "None"
          /\ UNCHANGED <<relationships, review_flags>>
    /\ FlagBefore = {} =>
          /\ call'.error # "None"
          /\ UNCHANGED <<relationships, review_flags>>
    /\ relationships' # relationships =>
          /\ call'.status = "success"
          /\ call'.resolution = "resolved"
          /\ \E f \in FlagBefore :
                /\ f.flag_type = "suggested_relationship"
                /\ relationships' = update_verified(f.relationship_id)

\* C29: resolve_flag succeeds only on a flag whose status is open or
\* in_review and leaves it resolved or dismissed; on a flag in another status
\* and on an unknown flag id it returns an error and changes neither the flag
\* nor any relationship; it sets verified only when a suggested_relationship
\* flag is resolved with resolution 'resolved'
C29_ResolveFlagOneWay ==
    [][ResolveFlagReturns => ResolveFlagOneWayStep]_vars

\* the same for the two resolutions the docstring names
ResolveFlagOneWayForNamedResolutions ==
    [][(ResolveFlagReturns /\ call'.resolution \in {"resolved", "dismissed"})
            => ResolveFlagOneWayStep]_vars

\* a resolve_flag call has returned success and its flag is still open or
\* in_review
ResolvedFlagStillOpen ==
    /\ call.op = "resolve_flag"
    /\ call.pc = "done"
    /\ call.status = "success"
    /\ \E f \in review_flags : f.id = call.flag_id /\ f.status \in {"open", "in_review"}

\* a resolve_flag call has verified a suggested relationship
ResolvedFlagVerified ==
    /\ call.op = "resolve_flag"
    /\ call.pc = "done"
    /\ call.status = "success"
    /\ \E f \in review_flags, r \in relationships :
          f.id = call.flag_id /\ f.relationship_id = r.id /\ r.verified = 1 /\ r.inferred = 1

----------------------------------------------------------------------------
(* Traversals beside a writer *)

\* the call is a traversal that has returned
ConcurrentDone ==
    /\ call.pc = "done"
    /\ call.op \in {"traverse_upstream", "traverse_downstream", "find_dependents"}
    /\ "started_on" \in DOMAIN call

\* the edges a call of operation op follows in table rows
EdgesIn(rows, op) ==
    CASE op = "traverse_downstream" ->
            {<<r.source_asset_id, r.target_asset_id>> : r \in rows}
      [] op = "traverse_upstream" ->
            {<<r.target_asset_id, r.source_asset_id>> : r \in rows}
      [] op = "find_dependents" ->
            {<<r.target_asset_id, r.source_asset_id>> :
                r \in {x \in rows : x.relationship_type = "depends_on"}}

\* what the returned call gives on the single table rows: each asset within
\* max_depth edges of the root, with its distance
ResultOn(rows) ==
    LET edges == EdgesIn(rows, call.op)
    IN {<<v, Distance(call.root, edges, v)>> : v \in Reachable(call.root, edges, call.max_depth)}

\* what the call returned: each asset with its depth
ResultGiven == {<<call.assets[i].id, call.assets[i].depth>> : i \in DOMAIN call.assets}

\* the tables the store has held since the call started: ids are issued in
\* order, so an earlier table is the rows up to some id
TablesDuring ==
    {t \in {{r \in relationships : r.id[1] = "seed" \/ r.id[2] <= k} :
                k \in 0..(Cardinality(relationships) + Cardinality(review_flags))} :
        call.started_on \subseteq t}

\* the call's result is its result on one of the tables held during the call
MatchesSomeTable == \E t \in TablesDuring : ResultGiven = ResultOn(t)

\* the call's result lies between its result on the table it started on and
\* its result on the table as it is: in the state a call returns in, the
\* table it returned on
BetweenStartAndReturn ==
    LET first == ResultOn(call.started_on)
        last == ResultOn(relationships)
    IN /\ \A x \in first : \E y \in ResultGiven : y[1] = x[1] /\ y[2] <= x[2]
       /\ \A y \in ResultGiven : \E z \in last : z[1] = y[1] /\ z[2] <= y[2]

\* the step is the return of a traversal
TraversalReturns ==
    /\ call.pc = "loop"
    /\ call'.pc = "done"
    /\ "started_on" \in DOMAIN call

\* C25 as stated: the result of a traverse_upstream, traverse_downstream or
\* find_dependents call equals the result of the same call on one single
\* table that the store held during the call, also when another caller
\* inserts relationships between the traversal's queries
C25_ResultOfOneSnapshot ==
    [][TraversalReturns => MatchesSomeTable']_vars

\* C25, amended: the traversal takes no snapshot; when insertions interleave
\* with its queries its result lies between two snapshots: every asset the
\* call returns on the table it started on is returned, no deeper, and every
\* returned asset is one the call returns on the table it returned on (and
\* on every later table), no less deep there
C25_ResultBetweenSnapshots ==
    ConcurrentDone => BetweenStartAndReturn

\* a returned traversal whose result is its result on no table the store
\* held during the call
C25_Witness ==
    /\ ConcurrentDone
    /\ ~MatchesSomeTable
    /\ BetweenStartAndReturn

NonDecreasing(depths) ==
    \A i, j \in DOMAIN depths : i < j => depths[i] <= depths[j]

\* C28: with insertions of another caller between its queries, the result of
\* a traverse_upstream, traverse_downstream or find_dependents call holds no
\* root, no asset twice, depths in 1..max_depth only, in non-decreasing order
C28_ResultShapeUnderInsertions ==
    ConcurrentDone =>
        /\ \A i \in DOMAIN call.assets :
              /\ call.assets[i].id # call.root
              /\ call.assets[i].depth \in 1..call.max_depth
        /\ \A i, j \in DOMAIN call.assets : i # j => call.assets[i].id # call.assets[j].id
        /\ NonDecreasing([i \in DOMAIN call.assets |-> call.assets[i].depth])

\* a returned traversal that lists an asset which no path led to when the
\* call started
C28_Witness ==
    /\ ConcurrentDone
    /\ Len(call.assets) >= 2
    /\ \E i \in DOMAIN call.assets :
          call.assets[i].id \notin {x[1] : x \in ResultOn(call.started_on)}
    /\ \E r \in relationships : r \notin call.started_on

----------------------------------------------------------------------------
(* Termination beside a writer *)

LoopingOps ==
    {"traverse_upstream", "traverse_downstream", "find_dependents",
     "find_single_points_of_failure", "analyze_impact", "get_critical_path"}

\* a call of one of the six operations is under way
Running == call.op \in LoopingOps /\ call.pc # "done"

\* the ids a running traversal or path search can still expand
Unexpanded ==
    IF call.op \in {"traverse_upstream", "traverse_downstream", "find_dependents",
                    "get_critical_path"}
    THEN (DOMAIN assets \cup {UnknownId}) \ call.visited
    ELSE {}

\* C24: every call of traverse_upstream, traverse_downstream,
\* find_dependents, find_single_points_of_failure, analyze_impact and
\* get_critical_path eventually returns, also when another caller's
\* suggest_relationship inserts rows between its store queries, and also for
\* get_critical_path, which has no max_depth
C24_EveryCallReturns ==
    Running ~> (call.op \in LoopingOps /\ call.pc = "done")

\* a traversal that started on an empty table has returned two assets: both
\* rows it followed were inserted while it ran
C24_Witness ==
    /\ call.op = "traverse_downstream"
    /\ call.pc = "done"
    /\ call.started_on = {}
    /\ Len(call.assets) = 2
    /\ call.assets[2].depth = 2

====
